---- MODULE Spec2Model ----
(***************************************************************************)
(* Verification model of omero-metadata's bulk-annotation population      *)
(* pipeline (src/omero_metadata/populate.py): HeaderResolver,              *)
(* ValueResolver and its per-target wrappers, and ParsingContext.parse.    *)
(*                                                                         *)
(* Text is modelled as a sequence of one-character strings so that         *)
(* str.lower(), int(), float(), "in" and len() are computed, not assumed.  *)
(* A Python value is a tagged record (t = "int", "str", "float", "bool",   *)
(* "Skip", "None"); a call that may raise returns [err, v] where err is    *)
(* "none" or the name of the exception class.                              *)
(***************************************************************************)
EXTENDS Integers, Sequences, FiniteSets, TLC

(***************************************************************************)
(* Bounds of the model.                                                    *)
(***************************************************************************)
\* Largest number of data lines of an input file.
MaxRows == 2
\* Largest batch size handed to populate_from_reader.
MaxBatch == 2

(***************************************************************************)
(* Python text primitives.                                                 *)
(***************************************************************************)
UpperAlpha == <<"A", "B", "C", "D", "E", "F", "G", "H", "I", "J", "K", "L", "M",
                "N", "O", "P", "Q", "R", "S", "T", "U", "V", "W", "X", "Y", "Z">>

LowerAlpha == <<"a", "b", "c", "d", "e", "f", "g", "h", "i", "j", "k", "l", "m",
                "n", "o", "p", "q", "r", "s", "t", "u", "v", "w", "x", "y", "z">>

DigitChars == <<"0", "1", "2", "3", "4", "5", "6", "7", "8", "9">>

IndexIn(seq, c) == CHOOSE i \in 1..Len(seq) : seq[i] = c

IsUpper(c) == \E i \in 1..26 : UpperAlpha[i] = c

IsLetter(c) == \E i \in 1..26 : UpperAlpha[i] = c \/ LowerAlpha[i] = c

IsDigit(c) == \E i \in 1..10 : DigitChars[i] = c

DigitVal(c) == IndexIn(DigitChars, c) - 1

\* str.lower()
LowerChar(c) == IF IsUpper(c) THEN LowerAlpha[IndexIn(UpperAlpha, c)] ELSE c

Lower(s) == [i \in 1..Len(s) |-> LowerChar(s[i])]

\* sub in s
Contains(sub, s) ==
    \E k \in 0..(Len(s) - Len(sub)) :
        \A j \in 1..Len(sub) : s[k + j] = sub[j]

\* first offset (0-based) at which sub occurs in s
FindFirst(sub, s) ==
    CHOOSE k \in 0..(Len(s) - Len(sub)) :
        /\ \A j \in 1..Len(sub) : s[k + j] = sub[j]
        /\ \A k2 \in 0..(k - 1) : \E j \in 1..Len(sub) : s[k2 + j] # sub[j]

\* s.replace(a, b) for one-character a
ReplaceChar(s, a, b) == [i \in 1..Len(s) |-> IF s[i] = a THEN b ELSE s[i]]

AllDigits(s) == Len(s) > 0 /\ \A i \in 1..Len(s) : IsDigit(s[i])

RECURSIVE DigitsValue(_)
DigitsValue(s) ==
    IF Len(s) = 0 THEN 0
    ELSE 10 * DigitsValue(SubSeq(s, 1, Len(s) - 1)) + DigitVal(s[Len(s)])

RECURSIVE DecimalDigits(_)
\* the decimal digits of a natural number: what '%d' and str() print
DecimalDigits(n) ==
    IF n < 10 THEN <<DigitChars[n + 1]>>
    ELSE Append(DecimalDigits(n \div 10), DigitChars[(n % 10) + 1])

(***************************************************************************)
(* Python values and results.                                              *)
(***************************************************************************)
IntV(n) == [t |-> "int", v |-> n]

StrV(s) == [t |-> "str", v |-> s]

BoolV(b) == [t |-> "bool", v |-> b]

\* a float is mantissa * 10^(-frac); nan is float("NaN")
FloatV(m, f) == [t |-> "float", nan |-> FALSE, m |-> m, frac |-> f]

NaN == [t |-> "float", nan |-> TRUE, m |-> 0, frac |-> 0]

SkipV == [t |-> "Skip"]

NoneV == [t |-> "None"]

IsInt(x) == x.t = "int"

IsStr(x) == x.t = "str"

IsSkip(x) == x.t = "Skip"

IsNaN(x) == x.t = "float" /\ x.nan

Ok(v) == [err |-> "none", v |-> v]

Raise(e) == [err |-> e, v |-> NoneV]

\* int(text): optional sign followed by decimal digits, else ValueError
PyInt(s) ==
    IF AllDigits(s) THEN Ok(DigitsValue(s))
    ELSE IF Len(s) > 1 /\ s[1] = "-" /\ AllDigits(Tail(s))
         THEN Ok(0 - DigitsValue(Tail(s)))
    ELSE IF Len(s) > 1 /\ s[1] = "+" /\ AllDigits(Tail(s))
         THEN Ok(DigitsValue(Tail(s)))
    ELSE Raise("ValueError")

RECURSIVE Normalise(_, _)
Normalise(m, f) ==
    IF f > 0 /\ m % 10 = 0 THEN Normalise(m \div 10, f - 1) ELSE FloatV(m, f)

\* float(text) for plain decimal literals: digits, optionally "." digits
PyFloat(s) ==
    IF AllDigits(s) THEN Ok(FloatV(DigitsValue(s), 0))
    ELSE IF Contains(<<".">>, s)
         THEN LET k == FindFirst(<<".">>, s)
                  ip == SubSeq(s, 1, k)
                  fp == SubSeq(s, k + 2, Len(s))
              IN  IF AllDigits(ip) /\ AllDigits(fp)
                  THEN Ok(Normalise(DigitsValue(ip \o fp), Len(fp)))
                  ELSE Raise("ValueError")
    ELSE Raise("ValueError")

\* dict helpers: a dict is a function with a finite domain
HasKey(d, k) == k \in DOMAIN d

Put(d, k, v) == [x \in (DOMAIN d) \cup {k} |-> IF x = k THEN v ELSE d[x]]

EmptyDict == <<>>

(***************************************************************************)
(* More text primitives used by the header code.                           *)
(***************************************************************************)
RECURSIVE LStrip(_)
LStrip(s) == IF Len(s) > 0 /\ s[1] = " " THEN LStrip(Tail(s)) ELSE s

RECURSIVE RStrip(_)
RStrip(s) ==
    IF Len(s) > 0 /\ s[Len(s)] = " " THEN RStrip(SubSeq(s, 1, Len(s) - 1)) ELSE s

\* str.strip() (blanks are the only whitespace of the modelled files)
Strip(s) == LStrip(RStrip(s))

RECURSIVE RemoveAll(_, _)
\* re.sub(sub, '', s) for a literal pattern
RemoveAll(sub, s) ==
    IF Contains(sub, s)
    THEN LET k == FindFirst(sub, s)
         IN  SubSeq(s, 1, k) \o RemoveAll(sub, SubSeq(s, k + Len(sub) + 1, Len(s)))
    ELSE s

\* json.dumps({k: v}) for text without characters that need escaping
JsonDumps1(k, v) == <<"{", "\"">> \o k \o <<"\"", ":", " ", "\"">> \o v \o <<"\"", "}">>

(***************************************************************************)
(* Module constants of populate.py.                                        *)
(***************************************************************************)
PLATE_NAME_COLUMN == <<"P", "l", "a", "t", "e", " ", "N", "a", "m", "e">>

WELL_NAME_COLUMN == <<"W", "e", "l", "l", " ", "N", "a", "m", "e">>

DATASET_NAME_COLUMN == <<"D", "a", "t", "a", "s", "e", "t", " ", "N", "a", "m", "e">>

IMAGE_NAME_COLUMN == <<"I", "m", "a", "g", "e", " ", "N", "a", "m", "e">>

ROI_NAME_COLUMN == <<"R", "o", "i", " ", "N", "a", "m", "e">>

s_Plate == <<"P", "l", "a", "t", "e">>

s_Well == <<"W", "e", "l", "l">>

s_Image == <<"I", "m", "a", "g", "e">>

s_Roi == <<"R", "o", "i">>

s_Dataset == <<"D", "a", "t", "a", "s", "e", "t">>

s_plate == <<"p", "l", "a", "t", "e">>

s_well == <<"w", "e", "l", "l">>

s_image == <<"i", "m", "a", "g", "e">>

s_roi == <<"r", "o", "i">>

s_dataset == <<"d", "a", "t", "a", "s", "e", "t">>

s_dataset_name == <<"d", "a", "t", "a", "s", "e", "t", " ", "n", "a", "m", "e">>

s_image_name_key == <<"i", "m", "a", "g", "e", "_", "n", "a", "m", "e">>

s_dataset_name_key == <<"d", "a", "t", "a", "s", "e", "t", "_", "n", "a", "m", "e">>

s_field == <<"f", "i", "e", "l", "d">>

s_row == <<"r", "o", "w">>

s_column == <<"c", "o", "l", "u", "m", "n">>

s_wellsample == <<"w", "e", "l", "l", "s", "a", "m", "p", "l", "e">>

s_shape == <<"s", "h", "a", "p", "e">>

s_d == <<"d">>

s_l == <<"l">>

s_s == <<"s">>

s_b == <<"b">>

s_header_marker == <<"#", " ", "h", "e", "a", "d", "e", "r">>

REGEX_HEADER_SPECIFIER == <<"#", " ", "h", "e", "a", "d", "e", "r", " ">>

ADDED_COLUMN_NAMES == {PLATE_NAME_COLUMN, WELL_NAME_COLUMN, DATASET_NAME_COLUMN,
                       IMAGE_NAME_COLUMN, ROI_NAME_COLUMN, s_roi, s_image}

BOOLEAN_TRUE == {<<"y", "e", "s">>, <<"t", "r", "u", "e">>, <<"t">>, <<"1">>}

COLUMN_TYPES ==
    (s_plate :> "PlateColumn") @@ (s_well :> "WellColumn") @@
    (s_image :> "ImageColumn") @@ (s_dataset :> "DatasetColumn") @@
    (s_roi :> "RoiColumn") @@ (s_d :> "DoubleColumn") @@
    (s_l :> "LongColumn") @@ (s_s :> "StringColumn") @@ (s_b :> "BoolColumn")

DEFAULT_COLUMN_SIZE == 1

image_keys == (s_roi :> "RoiColumn")

dataset_keys == (s_image :> "ImageColumn") @@ (s_image_name_key :> "StringColumn")

project_keys ==
    (s_dataset :> "StringColumn") @@ (s_dataset_name_key :> "StringColumn") @@
    (s_image :> "ImageColumn") @@ (s_image_name_key :> "StringColumn")

plate_keys ==
    (s_well :> "WellColumn") @@ (s_field :> "ImageColumn") @@
    (s_row :> "LongColumn") @@ (s_column :> "LongColumn") @@
    (s_wellsample :> "ImageColumn") @@ (s_image :> "ImageColumn")

screen_keys == (s_plate :> "PlateColumn") @@ plate_keys

\* the target classes ParsingContext and HeaderResolver dispatch on
SupportedTargets == {"Screen", "Plate", "Dataset", "Project", "Image"}

KeysOf(klass) ==
    CASE klass = "Screen" -> screen_keys
      [] klass = "Plate" -> plate_keys
      [] klass = "Dataset" -> dataset_keys
      [] klass = "Project" -> project_keys
      [] klass = "Image" -> image_keys

ListV(s) == [t |-> "list", v |-> s]

(***************************************************************************)
(* HeaderResolver.                                                         *)
(***************************************************************************)
\* a column object of omero.grid; size 0 stands for "no size attribute"
Column(cls, name, description) ==
    [cls |-> cls, name |-> name, description |-> description,
     size |-> IF cls = "StringColumn" THEN DEFAULT_COLUMN_SIZE ELSE 0,
     values |-> <<>>]

is_row_column_types(row) == Contains(s_header_marker, row[1])

parse_column_types(column_type_list) ==
    IF \A i \in 1..Len(column_type_list) :
          Lower(column_type_list[i]) \in DOMAIN COLUMN_TYPES
    THEN Ok(ListV([i \in 1..Len(column_type_list) |-> Lower(column_type_list[i])]))
    ELSE Raise("MetadataError")

get_column_types(row) ==
    IF ~Contains(s_header_marker, row[1]) THEN Ok(NoneV)
    ELSE parse_column_types(
             <<RemoveAll(REGEX_HEADER_SPECIFIER, row[1])>> \o Tail(row))

\* the name and description a header token is split into (lines 262-273)
HeaderName(h) ==
    LET base == IF Contains(<<"%", "%">>, h)
                THEN Strip(SubSeq(h, 1, FindFirst(<<"%", "%">>, h)))
                ELSE h
    IN  ReplaceChar(base, "/", "\\")

HeaderDescription(h) ==
    IF Contains(<<"%", "%">>, h)
    THEN LET d == SubSeq(h, FindFirst(<<"%", "%">>, h) + 3, Len(h))
         IN  IF Contains(<<"=">>, d)
             THEN LET e == FindFirst(<<"=">>, d)
                  IN  JsonDumps1(Strip(SubSeq(d, 1, e)),
                                 Strip(SubSeq(d, e + 2, Len(d))))
             ELSE d
    ELSE <<>>

\* the class chosen for header i (lines 274-294)
HeaderClass(klass, h, types, i) ==
    IF types.t # "None" THEN COLUMN_TYPES[types.v[i]]
    ELSE IF Lower(h) \in DOMAIN KeysOf(klass) THEN KeysOf(klass)[Lower(h)]
    ELSE "StringColumn"

\* variant: a roi column is renamed whatever the target is
RenamedColumn_roi(column, target) ==
    CASE column.cls = "PlateColumn" -> [column EXCEPT !.name = s_Plate]
      [] column.cls = "WellColumn" -> [column EXCEPT !.name = s_Well]
      [] column.cls = "ImageColumn" -> [column EXCEPT !.name = s_Image]
      [] column.cls = "RoiColumn" -> [column EXCEPT !.name = s_Roi]
      [] column.cls = "DatasetColumn" -> [column EXCEPT !.name = s_Dataset]
      [] OTHER -> column

\* the renaming of id columns in the second loop (lines 298-323)
RenamedColumn(column, target) ==
    CASE column.cls = "PlateColumn" -> [column EXCEPT !.name = s_Plate]
      [] column.cls = "WellColumn" -> [column EXCEPT !.name = s_Well]
      [] column.cls = "ImageColumn" -> [column EXCEPT !.name = s_Image]
      [] column.cls = "RoiColumn" /\ target # "Dataset" -> [column EXCEPT !.name = s_Roi]
      [] column.cls = "DatasetColumn" -> [column EXCEPT !.name = s_Dataset]
      [] OTHER -> column

\* the companions one column contributes to the append list (lines 298-328)
AppendFor(column, target) ==
    (IF column.cls = "PlateColumn"
     THEN <<Column("StringColumn", PLATE_NAME_COLUMN, <<>>)>> ELSE <<>>)
    \o (IF column.cls = "WellColumn"
        THEN <<Column("StringColumn", WELL_NAME_COLUMN, <<>>)>> ELSE <<>>)
    \o (IF column.cls = "ImageColumn"
        THEN <<Column("StringColumn", IMAGE_NAME_COLUMN, <<>>)>> ELSE <<>>)
    \o (IF column.cls = "RoiColumn" /\ target # "Dataset"
        THEN <<Column("StringColumn", ROI_NAME_COLUMN, <<>>)>> ELSE <<>>)
    \o (IF RenamedColumn(column, target).name = IMAGE_NAME_COLUMN
        THEN <<Column("ImageColumn", s_Image, <<>>)>> ELSE <<>>)
    \o (IF RenamedColumn(column, target).name = ROI_NAME_COLUMN
        THEN <<Column("RoiColumn", s_Roi, <<>>)>> ELSE <<>>)

RECURSIVE AppendList(_, _)
AppendList(columns, target) ==
    IF Len(columns) = 0 THEN <<>>
    ELSE AppendFor(Head(columns), target) \o AppendList(Tail(columns), target)

\* variant: a well column next to an image column is let through
columns_sanity_check_lax(columns) ==
    IF (\E i \in 1..Len(columns) : columns[i].cls = "RoiColumn")
       /\ (\E i \in 1..Len(columns) : columns[i].name = ROI_NAME_COLUMN)
    THEN Ok(FALSE)
    ELSE Ok(TRUE)

columns_sanity_check(columns) ==
    IF (\E i \in 1..Len(columns) : columns[i].cls = "WellColumn")
       /\ (\E i \in 1..Len(columns) : columns[i].cls = "ImageColumn")
    THEN Raise("MetadataError")
    ELSE IF (\E i \in 1..Len(columns) : columns[i].cls = "RoiColumn")
            /\ (\E i \in 1..Len(columns) : columns[i].name = ROI_NAME_COLUMN)
         THEN Ok(FALSE)
         ELSE Ok(TRUE)

_create_columns(klass, headers, types) ==
    IF types.t # "None" /\ Len(types.v) # Len(headers) THEN Raise("MetadataError")
    ELSE IF types.t # "None"
            /\ \E i \in 1..Len(headers) : types.v[i] \notin DOMAIN COLUMN_TYPES
         THEN Raise("KeyError")
    ELSE LET first == [i \in 1..Len(headers) |->
                          Column(HeaderClass(klass, headers[i], types, i),
                                 HeaderName(headers[i]),
                                 HeaderDescription(headers[i]))]
             columns == [i \in 1..Len(first) |-> RenamedColumn(first[i], klass)]
             append == AppendList(first, klass)
             sane == columns_sanity_check(columns)
         IN  IF sane.err # "none" THEN sane
             ELSE IF sane.v THEN Ok(columns \o append)
             ELSE Ok(columns)

create_columns(target, headers, types) ==
    IF target \in SupportedTargets THEN _create_columns(target, headers, types)
    ELSE Raise("MetadataError")

(***************************************************************************)
(* The remote repository the loaders read: one object of every supported   *)
(* target kind, as the queries of the _load methods return them.          *)
(***************************************************************************)
n_A1 == <<"A", "1">>

n_A2 == <<"A", "2">>

n_P1 == <<"P", "1">>

n_P2 == <<"P", "2">>

n_D1 == <<"D", "1">>

n_D2 == <<"D", "2">>

n_r1 == <<"r", "1">>

n_r2 == <<"r", "2">>

Image(id, name) == [id |-> id, name |-> name]

Well(id, row, column, images) ==
    [id |-> id, row |-> row, column |-> column, well_samples |-> images]

RepoPlate1 ==
    [id |-> 11, name |-> n_P1,
     wells |-> <<Well(21, 0, 0, <<Image(31, n_A1)>>),
                 Well(22, 0, 1, <<Image(32, n_A2)>>)>>]

RepoPlate2 ==
    [id |-> 12, name |-> n_P2,
     wells |-> <<Well(23, 0, 0, <<Image(33, n_A1)>>),
                 Well(24, 0, 1, <<Image(34, n_A2)>>)>>]

RepoScreen == [id |-> 1, name |-> <<"S", "c", "r">>, plates |-> <<RepoPlate1, RepoPlate2>>]

RepoDataset1 ==
    [id |-> 41, name |-> n_D1,
     images |-> <<Image(52, n_A2), Image(51, n_A1)>>,
     rois |-> <<[roi |-> 62, shape |-> 72], [roi |-> 61, shape |-> 71]>>]

RepoDataset2 ==
    [id |-> 42, name |-> n_D2,
     images |-> <<Image(54, n_A2), Image(53, n_A1)>>,
     rois |-> <<>>]

RepoProject ==
    [id |-> 2, name |-> <<"P", "r", "j">>, datasets |-> <<RepoDataset2, RepoDataset1>>]

RepoImage ==
    [id |-> 51, name |-> n_A1,
     shapes |-> <<[id |-> 72, roi |-> [id |-> 62, name |-> n_r2]],
                  [id |-> 71, roi |-> [id |-> 61, name |-> n_r1]]>>]

\* a screen whose two plates are both called P1
RepoScreenDup ==
    [id |-> 3, name |-> <<"S", "c", "r">>,
     plates |-> <<RepoPlate1, [RepoPlate2 EXCEPT !.name = n_P1]>>]

\* a dataset whose two images are both called A1
RepoDatasetDup ==
    [id |-> 43, name |-> n_D1,
     images |-> <<Image(52, n_A1), Image(51, n_A1)>>,
     rois |-> <<>>]

\* a project whose two datasets are both called D1
RepoProjectDup ==
    [id |-> 4, name |-> <<"P", "r", "j">>,
     datasets |-> <<[RepoDataset2 EXCEPT !.name = n_D1], RepoDataset1>>]

\* a project with a dataset whose two images are both called A1
RepoProjectDupImages ==
    [id |-> 5, name |-> <<"P", "r", "j">>,
     datasets |-> <<RepoDataset2, RepoDatasetDup>>]

\* a project with one dataset
RepoProjectOne ==
    [id |-> 6, name |-> <<"P", "r", "j">>, datasets |-> <<RepoDataset1>>]

\* an image whose two rois are both called r1
RepoImageDup ==
    [id |-> 55, name |-> n_A1,
     shapes |-> <<[id |-> 72, roi |-> [id |-> 62, name |-> n_r1]],
                  [id |-> 71, roi |-> [id |-> 61, name |-> n_r1]]>>]

\* an image with two rois of different names, one of them with two shapes
RepoImageShapes ==
    [id |-> 56, name |-> n_A1,
     shapes |-> <<[id |-> 73, roi |-> [id |-> 62, name |-> n_r2]],
                  [id |-> 72, roi |-> [id |-> 61, name |-> n_r1]],
                  [id |-> 71, roi |-> [id |-> 61, name |-> n_r1]]>>]

\* the object a target (kind, id) denotes in the repository, if any
RepoFind(kind, id) ==
    CASE kind = "Screen" /\ id = RepoScreen.id -> <<RepoScreen>>
      [] kind = "Plate" /\ id = RepoPlate1.id -> <<RepoPlate1>>
      [] kind = "Dataset" /\ id = RepoDataset1.id -> <<RepoDataset1>>
      [] kind = "Project" /\ id = RepoProject.id -> <<RepoProject>>
      [] kind = "Image" /\ id = RepoImage.id -> <<RepoImage>>
      [] kind = "Screen" /\ id = RepoScreenDup.id -> <<RepoScreenDup>>
      [] kind = "Dataset" /\ id = RepoDatasetDup.id -> <<RepoDatasetDup>>
      [] kind = "Project" /\ id = RepoProjectDup.id -> <<RepoProjectDup>>
      [] kind = "Project" /\ id = RepoProjectDupImages.id -> <<RepoProjectDupImages>>
      [] kind = "Image" /\ id = RepoImageDup.id -> <<RepoImageDup>>
      [] kind = "Project" /\ id = RepoProjectOne.id -> <<RepoProjectOne>>
      [] kind = "Image" /\ id = RepoImageShapes.id -> <<RepoImageShapes>>
      [] kind = "Well" /\ id = 21 -> <<RepoPlate1.wells[1]>>
      [] OTHER -> <<>>

(***************************************************************************)
(* The wrappers (hierarchy indices) and their _load methods.               *)
(***************************************************************************)
AS_ALPHA ==
    [i \in 1..52 |-> IF i <= 26 THEN <<LowerAlpha[i]>> ELSE <<"a", LowerAlpha[i - 26]>>]

RECURSIVE FoldSeq(_, _, _)
FoldSeq(Op(_, _), acc, seq) ==
    IF Len(seq) = 0 THEN acc ELSE FoldSeq(Op, Op(acc, Head(seq)), Tail(seq))

\* the attributes every wrapper record carries; has lists the ones the
\* Python object of that class really has
NewWrapper(kind, target) ==
    [kind |-> kind, target_id |-> target.id, target_name |-> target.name,
     images_by_id |-> EmptyDict, images_by_name |-> EmptyDict,
     wells_by_location |-> EmptyDict, wells_by_id |-> EmptyDict,
     plates_by_name |-> EmptyDict, plates_by_id |-> EmptyDict,
     datasets_by_id |-> EmptyDict, datasets_by_name |-> EmptyDict,
     rois_by_id |-> EmptyDict, rois_by_name |-> EmptyDict,
     shapes_by_id |-> EmptyDict, rois_loaded |-> FALSE,
     ambiguous_naming |-> FALSE]

HasAttr(w, attr) ==
    CASE w.kind = "Screen" ->
           attr \in {"images_by_id", "wells_by_location", "wells_by_id",
                     "plates_by_name", "plates_by_id", "resolve_well",
                     "resolve_plate", "get_plate_name_by_id", "get_well_by_id",
                     "get_image_name_by_id"}
      [] w.kind = "Plate" ->
           attr \in {"images_by_id", "wells_by_location", "wells_by_id",
                     "resolve_well", "get_well_by_id", "get_image_name_by_id"}
      [] w.kind = "Dataset" ->
           attr \in {"images_by_id", "images_by_name", "rois_by_id",
                     "shapes_by_id", "resolve_roi", "resolve_shape",
                     "get_image_id_by_name", "get_image_name_by_id"}
      [] w.kind = "Project" ->
           attr \in {"images_by_id", "images_by_name", "datasets_by_id",
                     "datasets_by_name", "resolve_dataset",
                     "get_image_id_by_name", "get_image_name_by_id"}
      [] w.kind = "Image" ->
           attr \in {"rois_by_id", "shapes_by_id", "rois_by_name",
                     "resolve_roi", "resolve_shape", "get_roi_id_by_name",
                     "get_roi_name_by_id"}

\* SPWWrapper.parse_plate: the indices of one plate
PlateWellsByLocation(plate) ==
    FoldSeq(LAMBDA acc, well :
                LET r == AS_ALPHA[well.row + 1]
                    c == DecimalDigits(well.column + 1)
                IN  Put(acc, r, Put(IF HasKey(acc, r) THEN acc[r] ELSE EmptyDict,
                                    c, well)),
            EmptyDict, plate.wells)

PlateWellsById(plate) ==
    FoldSeq(LAMBDA acc, well : Put(acc, well.id, well), EmptyDict, plate.wells)

PlateImagesById(images_by_id, plate) ==
    FoldSeq(LAMBDA acc, well :
                FoldSeq(LAMBDA acc2, image : Put(acc2, image.id, image),
                        acc, well.well_samples),
            images_by_id, plate.wells)

ScreenWrapper_load(screen) ==
    LET w0 == NewWrapper("Screen", screen)
        step(w, plate) ==
            [w EXCEPT
               !.plates_by_name = Put(@, plate.name, plate),
               !.plates_by_id = Put(@, plate.id, plate),
               !.wells_by_location = Put(@, plate.name, PlateWellsByLocation(plate)),
               !.wells_by_id = Put(@, plate.id, PlateWellsById(plate)),
               !.images_by_id =
                   Put(@, screen.id, PlateImagesById(@[screen.id], plate))]
    IN  Ok(FoldSeq(step,
                   [w0 EXCEPT !.images_by_id = Put(EmptyDict, screen.id, EmptyDict)],
                   screen.plates))

PlateWrapper_load(plate) ==
    LET w0 == NewWrapper("Plate", plate)
    IN  Ok([w0 EXCEPT
              !.wells_by_location = Put(EmptyDict, plate.name, PlateWellsByLocation(plate)),
              !.wells_by_id = Put(EmptyDict, plate.id, PlateWellsById(plate)),
              !.images_by_id = Put(EmptyDict, plate.id,
                                   PlateImagesById(EmptyDict, plate))])

\* DatasetWrapper._load: a second image of the same name raises Exception
DatasetWrapper_load(dataset) ==
    LET w0 == NewWrapper("Dataset", dataset)
        data == dataset.images
    IN  IF Len(data) = 0 THEN Raise("MetadataError")
        ELSE IF \E i, j \in 1..Len(data) : i < j /\ data[i].name = data[j].name
        THEN Raise("Exception")
        ELSE Ok([w0 EXCEPT
                   !.images_by_name =
                       FoldSeq(LAMBDA acc, image : Put(acc, image.name, image),
                               EmptyDict, data),
                   !.images_by_id =
                       Put(EmptyDict, dataset.id,
                           FoldSeq(LAMBDA acc, image : Put(acc, image.id, image),
                                   EmptyDict, data))])

\* DatasetWrapper._load_rois
DatasetWrapper_load_rois(w, dataset) ==
    IF Len(dataset.rois) = 0 THEN Raise("MetadataError")
    ELSE Ok([w EXCEPT
               !.rois_loaded = TRUE,
               !.rois_by_id =
                   FoldSeq(LAMBDA acc, r : Put(acc, r.roi, [id |-> r.roi]),
                           EmptyDict, dataset.rois),
               !.shapes_by_id =
                   FoldSeq(LAMBDA acc, r : Put(acc, r.shape, [id |-> r.shape]),
                           EmptyDict, dataset.rois)])

\* the (dataset, image) pairs of the projection of ProjectWrapper._load
ProjectPairs(project) ==
    FoldSeq(LAMBDA acc, d :
                acc \o [i \in 1..Len(d.images) |->
                           [dataset |-> [id |-> d.id, name |-> d.name],
                            image |-> d.images[i]]],
            <<>>, project.datasets)

ProjectWrapper_load(project) ==
    LET w0 == NewWrapper("Project", project)
        data == ProjectPairs(project)
        sub(d, k) == IF HasKey(d, k) THEN d[k] ELSE EmptyDict
        step(w, p) ==
            [w EXCEPT
               !.images_by_id =
                   Put(@, p.dataset.id, Put(sub(@, p.dataset.id), p.image.id, p.image)),
               !.images_by_name =
                   Put(@, p.dataset.id, Put(sub(@, p.dataset.id), p.image.name, p.image)),
               !.datasets_by_id = Put(@, p.dataset.id, p.dataset),
               !.datasets_by_name = Put(@, p.dataset.name, p.dataset)]
    IN  IF Len(data) = 0 THEN Raise("MetadataError")
        ELSE IF \E i, j \in 1..Len(data) :
                   /\ i < j
                   /\ \/ /\ data[i].dataset.name = data[j].dataset.name
                         /\ data[i].dataset.id # data[j].dataset.id
                      \/ /\ data[i].dataset.id = data[j].dataset.id
                         /\ data[i].image.name = data[j].image.name
                         /\ data[i].image.id # data[j].image.id
        THEN Raise("Exception")
        ELSE Ok(FoldSeq(step, w0, data))

ImageWrapper_load(image) ==
    LET w0 == NewWrapper("Image", image)
        data == image.shapes
        step(w, shape) ==
            [w EXCEPT
               !.rois_by_id = Put(@, shape.roi.id, shape.roi),
               !.shapes_by_id = Put(@, shape.id, shape),
               !.ambiguous_naming = @ \/ HasKey(w.rois_by_name, shape.roi.name),
               !.rois_by_name = Put(@, shape.roi.name, shape.roi)]
    IN  IF Len(data) = 0 THEN Raise("MetadataError")
        ELSE Ok(FoldSeq(step, w0, data))

\* ValueResolver.__init__: the target must exist and be of a supported class
ValueResolver_init(kind, id) ==
    IF Len(RepoFind(kind, id)) # 1 THEN Raise("MetadataError")
    ELSE LET obj == RepoFind(kind, id)[1]
         IN  CASE kind = "Plate" -> PlateWrapper_load(obj)
               [] kind = "Dataset" -> DatasetWrapper_load(obj)
               [] kind = "Screen" -> ScreenWrapper_load(obj)
               [] kind = "Project" -> ProjectWrapper_load(obj)
               [] kind = "Image" -> ImageWrapper_load(obj)
               [] OTHER -> Raise("MetadataError")

(***************************************************************************)
(* ValueResolver.resolve and the resolve_* methods of the wrappers.        *)
(* row is the list of (column, raw value) pairs populate_row builds.       *)
(***************************************************************************)
\* d[key] for a Python value used as key: a key of another type is missing
HasValKey(d, val, tag) == val.t = tag /\ val.v \in DOMAIN d

\* WELL_REGEX = ^([a-zA-Z]+)(\d+)$
WellRegexMatches(value) ==
    \E k \in 1..(Len(value) - 1) :
        /\ \A i \in 1..k : IsLetter(value[i])
        /\ \A i \in (k + 1)..Len(value) : IsDigit(value[i])

WellRegexSplit(value) ==
    CHOOSE k \in 1..(Len(value) - 1) :
        /\ \A i \in 1..k : IsLetter(value[i])
        /\ \A i \in (k + 1)..Len(value) : IsDigit(value[i])

\* index of the first PlateColumn pair of the row, 0 if there is none
FirstPlatePair(row) ==
    IF \E i \in 1..Len(row) : row[i].column.cls = "PlateColumn"
    THEN CHOOSE i \in 1..Len(row) :
             /\ row[i].column.cls = "PlateColumn"
             /\ \A j \in 1..(i - 1) : row[j].column.cls # "PlateColumn"
    ELSE 0

\* variant: the column digits are looked up as written, leading zeros kept
resolve_well_raw(w, row, value) ==
    IF ~WellRegexMatches(value) THEN Raise("MetadataError")
    ELSE LET k == WellRegexSplit(value)
             plate_row == Lower(SubSeq(value, 1, k))
             plate_column == SubSeq(value, k + 1, Len(value))
             p == FirstPlatePair(row)
             found(wbl) ==
                 IF HasKey(wbl, plate_row) /\ HasKey(wbl[plate_row], plate_column)
                 THEN Ok(IntV(wbl[plate_row][plate_column].id))
                 ELSE Ok(IntV(-1))
         IN  IF Cardinality(DOMAIN w.wells_by_location) = 1
             THEN found(w.wells_by_location[CHOOSE x \in DOMAIN w.wells_by_location : TRUE])
             ELSE IF p = 0 THEN Raise("MetadataError")
             ELSE IF ~HasKey(w.wells_by_location, row[p].value) THEN Raise("KeyError")
             ELSE found(w.wells_by_location[row[p].value])

resolve_well(w, row, value) ==
    IF ~WellRegexMatches(value) THEN Raise("MetadataError")
    ELSE LET k == WellRegexSplit(value)
             plate_row == Lower(SubSeq(value, 1, k))
             plate_column == DecimalDigits(DigitsValue(SubSeq(value, k + 1, Len(value))))
             p == FirstPlatePair(row)
             found(wbl) ==
                 IF HasKey(wbl, plate_row) /\ HasKey(wbl[plate_row], plate_column)
                 THEN Ok(IntV(wbl[plate_row][plate_column].id))
                 ELSE Ok(IntV(-1))
         IN  IF Cardinality(DOMAIN w.wells_by_location) = 1
             THEN found(w.wells_by_location[CHOOSE x \in DOMAIN w.wells_by_location : TRUE])
             ELSE IF p = 0 THEN Raise("MetadataError")
             ELSE IF ~HasKey(w.wells_by_location, row[p].value) THEN Raise("KeyError")
             ELSE found(w.wells_by_location[row[p].value])

resolve_plate(w, value) ==
    IF HasKey(w.plates_by_name, value) THEN Ok(IntV(w.plates_by_name[value].id))
    ELSE Ok(SkipV)

resolve_dataset(w, column, value) ==
    IF Lower(column.name) = s_dataset
    THEN IF PyInt(value).err # "none" THEN Raise("ValueError")
         ELSE IF HasKey(w.datasets_by_id, PyInt(value).v)
              THEN Ok(IntV(w.datasets_by_id[PyInt(value).v].id))
              ELSE Ok(SkipV)
    ELSE IF HasKey(w.datasets_by_name, value)
         THEN Ok(IntV(w.datasets_by_name[value].id))
         ELSE Ok(SkipV)

\* rois_by_id[int(value)].id.val with KeyError and ValueError mapped to -1
IdOrSentinel(index, value) ==
    IF PyInt(value).err = "none" /\ HasKey(index, PyInt(value).v)
    THEN IntV(index[PyInt(value).v].id)
    ELSE IntV(-1)

\* the parent scope an image id is resolved in (lines 413-449)
ImageScope(w, row) ==
    IF Cardinality(DOMAIN w.images_by_id) = 1
    THEN Ok(w.images_by_id[CHOOSE x \in DOMAIN w.images_by_id : TRUE])
    ELSE LET isParent(pr) ==
                 \/ pr.column.cls = "PlateColumn"
                 \/ Lower(pr.column.name) = s_dataset_name
                 \/ Lower(pr.column.name) = s_dataset
         IN  IF ~\E i \in 1..Len(row) : isParent(row[i])
             THEN Raise("MetadataError")
             ELSE LET i == CHOOSE i \in 1..Len(row) :
                               isParent(row[i]) /\ \A j \in 1..(i - 1) : ~isParent(row[j])
                      cv == row[i].value
                  IN  IF row[i].column.cls = "PlateColumn"
                      THEN IF ~HasAttr(w, "plates_by_name") THEN Raise("AttributeError")
                           ELSE IF ~HasKey(w.plates_by_name, cv) THEN Raise("KeyError")
                           ELSE IF ~HasKey(w.images_by_id, w.plates_by_name[cv].id)
                                THEN Raise("KeyError")
                           ELSE Ok(w.images_by_id[w.plates_by_name[cv].id])
                      ELSE IF Lower(row[i].column.name) = s_dataset_name
                      THEN IF ~HasAttr(w, "datasets_by_name") THEN Raise("AttributeError")
                           ELSE IF ~HasKey(w.datasets_by_name, cv) THEN Raise("KeyError")
                           ELSE Ok(w.images_by_id[w.datasets_by_name[cv].id])
                      ELSE IF ~HasAttr(w, "datasets_by_id") THEN Raise("AttributeError")
                           ELSE IF PyInt(cv).err # "none" THEN Raise("ValueError")
                           ELSE IF ~HasKey(w.datasets_by_id, PyInt(cv).v) THEN Raise("KeyError")
                           ELSE Ok(w.images_by_id[PyInt(cv).v])

\* variant: only double columns take part in the empty-value test
EmptyValueClasses_double == {"DoubleColumn"}

\* the column classes of the empty-value test of resolve (lines 476-477)
EmptyValueClasses == {"LongColumn", "DoubleColumn"}

\* ValueResolver.resolve; the result carries the wrapper because
\* DatasetWrapper loads its ROI indices on first use
resolve(w, allow_nan, column, value, row) ==
    LET cls == column.cls
        R(res) == [err |-> res.err, v |-> res.v, w |-> w]
    IN  IF cls = "ImageColumn"
        THEN IF ~HasAttr(w, "images_by_id") THEN R(Raise("AttributeError"))
             ELSE LET scope == ImageScope(w, row)
                  IN  IF scope.err # "none" THEN R(scope)
                      ELSE IF PyInt(value).err # "none" THEN R(Raise("ValueError"))
                      ELSE IF HasKey(scope.v, PyInt(value).v)
                           THEN R(Ok(IntV(scope.v[PyInt(value).v].id)))
                           ELSE R(Ok(IntV(-1)))
        ELSE IF cls = "WellColumn"
        THEN IF HasAttr(w, "resolve_well") THEN R(resolve_well(w, row, value))
             ELSE R(Raise("AttributeError"))
        ELSE IF cls = "PlateColumn"
        THEN IF HasAttr(w, "resolve_plate") THEN R(resolve_plate(w, value))
             ELSE R(Raise("AttributeError"))
        ELSE IF cls = "DatasetColumn"
        THEN IF HasAttr(w, "resolve_dataset") THEN R(resolve_dataset(w, column, value))
             ELSE R(Raise("AttributeError"))
        ELSE IF cls = "RoiColumn" \/ Lower(column.name) = s_shape
        THEN LET isRoi == cls = "RoiColumn"
             IN  IF ~HasAttr(w, IF isRoi THEN "resolve_roi" ELSE "resolve_shape")
                 THEN R(Raise("AttributeError"))
                 ELSE IF w.kind = "Dataset" /\ ~w.rois_loaded
                 THEN LET l == DatasetWrapper_load_rois(w, RepoFind("Dataset", w.target_id)[1])
                      IN  IF l.err # "none" THEN R(l)
                          ELSE [err |-> "none",
                                v |-> IdOrSentinel(IF isRoi THEN l.v.rois_by_id
                                                   ELSE l.v.shapes_by_id, value),
                                w |-> l.v]
                 ELSE R(Ok(IdOrSentinel(IF isRoi THEN w.rois_by_id
                                        ELSE w.shapes_by_id, value)))
        ELSE IF Lower(column.name) \in {s_row, s_column} /\ cls = "LongColumn"
        THEN IF PyInt(value).err = "none" THEN R(Ok(IntV(PyInt(value).v - 1)))
             ELSE IF \E i \in 1..52 : AS_ALPHA[i] = Lower(value)
                  THEN R(Ok(IntV((CHOOSE i \in 1..52 : AS_ALPHA[i] = Lower(value)) - 1)))
                  ELSE R(Raise("ValueError"))
        ELSE IF cls = "StringColumn" THEN R(Ok(StrV(value)))
        ELSE IF Len(value) = 0 /\ cls \in EmptyValueClasses
        THEN IF allow_nan THEN R(Ok(NaN)) ELSE R(Raise("ValueError"))
        ELSE IF cls = "LongColumn"
        THEN IF PyInt(value).err = "none" THEN R(Ok(IntV(PyInt(value).v)))
             ELSE R(Raise("ValueError"))
        ELSE IF cls = "DoubleColumn" THEN R(PyFloat(value))
        ELSE IF cls = "BoolColumn" THEN R(Ok(BoolV(Lower(value) \in BOOLEAN_TRUE)))
        ELSE R(Raise("MetadataError"))

(***************************************************************************)
(* ParsingContext.post_process.  A state of the loop is [err, columns, w]. *)
(***************************************************************************)
Max(a, b) == IF a >= b THEN a ELSE b

\* the branch of the if/elif chain of lines 1366-1399 a column falls in
PostKind(c) ==
    IF c.cls = "PlateColumn" THEN "plate"
    ELSE IF c.cls = "WellColumn" THEN "well"
    ELSE IF c.name = WELL_NAME_COLUMN THEN "well_name"
    ELSE IF c.name = PLATE_NAME_COLUMN THEN "plate_name"
    ELSE IF c.name = IMAGE_NAME_COLUMN THEN "image_name"
    ELSE IF c.cls = "ImageColumn" THEN "image"
    ELSE IF c.name = ROI_NAME_COLUMN THEN "roi_name"
    ELSE IF c.cls = "RoiColumn" THEN "roi"
    ELSE "other"

\* index of the last column of a kind (the loop keeps the last), 0 for None
LastOfKind(columns, kind) ==
    IF \E i \in 1..Len(columns) : PostKind(columns[i]) = kind
    THEN CHOOSE i \in 1..Len(columns) :
             /\ PostKind(columns[i]) = kind
             /\ \A j \in (i + 1)..Len(columns) : PostKind(columns[j]) # kind
    ELSE 0

\* some column of the kind holds values when post_process starts
KindHasValues(columns, kind) ==
    \E i \in 1..Len(columns) :
        PostKind(columns[i]) = kind /\ Len(columns[i].values) > 0

\* columns_by_name[lowered]: index of the last column of that lowered name
ByName(columns, lowered) ==
    IF \E i \in 1..Len(columns) : Lower(columns[i].name) = lowered
    THEN CHOOSE i \in 1..Len(columns) :
             /\ Lower(columns[i].name) = lowered
             /\ \A j \in (i + 1)..Len(columns) : Lower(columns[j].name) # lowered
    ELSE 0

PPState(err, columns, w) == [err |-> err, columns |-> columns, w |-> w]

AppendValue(columns, idx, val) ==
    [columns EXCEPT ![idx].values = Append(@, val)]

AppendText(columns, idx, text) ==
    [columns EXCEPT ![idx].values = Append(@, StrV(text)),
                    ![idx].size = Max(@, Len(text))]

\* ValueResolver.get_well_name (lines 386-391) through get_well_by_id
get_well_name(w, well_id, plate) ==
    IF ~HasAttr(w, "get_well_by_id") THEN Raise("AttributeError")
    ELSE LET pkey == IF w.kind = "Plate" THEN IntV(w.target_id) ELSE plate
         IN  IF ~HasValKey(w.wells_by_id, pkey, "int") THEN Raise("KeyError")
             ELSE IF ~HasValKey(w.wells_by_id[pkey.v], well_id, "int") THEN Raise("KeyError")
             ELSE LET well == w.wells_by_id[pkey.v][well_id.v]
                  IN  IF well.row + 1 > 52 THEN Raise("IndexError")
                      ELSE Ok(AS_ALPHA[well.row + 1] \o DecimalDigits(well.column + 1))

\* lines 1409-1426
PostWellName(st, columns0, i) ==
    LET cols == st.columns
        wn == LastOfKind(columns0, "well_name")
        wc == LastOfKind(columns0, "well")
        pl == ByName(columns0, s_plate)
    IN  IF wn = 0 THEN st
        ELSE IF wc = 0 THEN PPState("AttributeError", cols, st.w)
        ELSE IF i > Len(cols[wc].values) THEN PPState("IndexError", cols, st.w)
        ELSE IF pl # 0 /\ i > Len(cols[pl].values) THEN PPState("IndexError", cols, st.w)
        ELSE LET plate == IF pl # 0 THEN cols[pl].values[i] ELSE NoneV
                 r == get_well_name(st.w, cols[wc].values[i], plate)
             IN  IF r.err = "KeyError" THEN PPState("none", AppendText(cols, wn, <<>>), st.w)
                 ELSE IF r.err # "none" THEN PPState(r.err, cols, st.w)
                 ELSE PPState("none", AppendText(cols, wn, r.v), st.w)

\* the dataset id the image branches look an image up in (lines 1436-1443
\* and 1461-1469); name_guard is the "target_class is not DatasetI" test
\* that only the second branch makes
PostDatasetId(st, columns0, i, target, name_guard) ==
    LET cols == st.columns
        dn == ByName(columns0, s_dataset_name)
        ds == ByName(columns0, s_dataset)
    IN  IF dn # 0 /\ (~name_guard \/ target # "Dataset")
        THEN IF i > Len(cols[dn].values) THEN Raise("IndexError")
             ELSE IF ~HasAttr(st.w, "datasets_by_name") THEN Raise("AttributeError")
             ELSE IF ~HasValKey(st.w.datasets_by_name, cols[dn].values[i], "str")
                  THEN Raise("KeyError")
             ELSE Ok(st.w.datasets_by_name[cols[dn].values[i].v].id)
        ELSE IF ds # 0
        THEN IF i > Len(cols[ds].values) THEN Raise("IndexError")
             ELSE LET x == cols[ds].values[i]
                  IN  IF x.t = "int" THEN Ok(x.v)
                      ELSE IF x.t = "str" THEN PyInt(x.v)
                      ELSE Raise("ValueError")
        ELSE Ok(st.w.target_id)

\* images_by_id[did] / images_by_name[did] of ProjectWrapper are
\* defaultdicts: reading a missing dataset id inserts an empty dict
Touch(d, k) == IF HasKey(d, k) THEN d ELSE Put(d, k, EmptyDict)

\* lines 1428-1452: names from ids (Dataset, Project)
PostImageNames(st, columns0, i, target) ==
    LET cols == st.columns
        w == st.w
        ic == LastOfKind(columns0, "image")
        inc == LastOfKind(columns0, "image_name")
        did == PostDatasetId(st, columns0, i, target, FALSE)
        done(iname, w2) ==
            IF i - 1 # Len(cols[inc].values) THEN PPState("AssertionError", cols, w2)
            ELSE PPState("none", AppendText(cols, inc, iname), w2)
    IN  IF i > Len(cols[ic].values) THEN PPState("IndexError", cols, w)
        ELSE IF did.err = "KeyError" THEN done(<<>>, w)
        ELSE IF did.err # "none" THEN PPState(did.err, cols, w)
        ELSE LET iid == cols[ic].values[i]
                 w2 == IF w.kind = "Project"
                       THEN [w EXCEPT !.images_by_id = Touch(@, did.v)]
                       ELSE w
             IN  IF HasKey(w2.images_by_id, did.v)
                    /\ HasValKey(w2.images_by_id[did.v], iid, "int")
                 THEN done(w2.images_by_id[did.v][iid.v].name, w2)
                 ELSE done(<<>>, w2)

\* lines 1453-1476: ids from names (Dataset, Project)
PostImageIds(st, columns0, i, target) ==
    LET cols == st.columns
        w == st.w
        ic == LastOfKind(columns0, "image")
        inc == LastOfKind(columns0, "image_name")
        did == PostDatasetId(st, columns0, i, target, TRUE)
        done(iid, w2) ==
            IF ic = 0 THEN PPState("AttributeError", cols, w2)
            ELSE IF i - 1 # Len(cols[ic].values) THEN PPState("AssertionError", cols, w2)
            ELSE PPState("none", AppendValue(cols, ic, IntV(iid)), w2)
    IN  IF i > Len(cols[inc].values) THEN PPState("IndexError", cols, w)
        ELSE IF did.err = "KeyError" THEN done(-1, w)
        ELSE IF did.err # "none" THEN PPState(did.err, cols, w)
        ELSE LET iname == cols[inc].values[i]
             IN  IF w.kind = "Dataset"
                 THEN IF HasValKey(w.images_by_name, iname, "str")
                      THEN done(w.images_by_name[iname.v].id, w)
                      ELSE done(-1, w)
                 ELSE LET w2 == [w EXCEPT !.images_by_name = Touch(@, did.v)]
                      IN  IF HasValKey(w2.images_by_name[did.v], iname, "str")
                          THEN done(w2.images_by_name[did.v][iname.v].id, w2)
                          ELSE done(-1, w2)

\* Python truth value of the pid argument of get_image_name_by_id
Truthy(x) ==
    CASE x.t = "None" -> FALSE
      [] x.t = "int" -> x.v # 0
      [] x.t = "str" -> Len(x.v) > 0
      [] x.t = "bool" -> x.v
      [] OTHER -> TRUE

\* SPWWrapper.get_image_name_by_id (lines 570-575)
SPW_get_image_name_by_id(w, iid, pid) ==
    IF ~Truthy(pid) /\ Cardinality(DOMAIN w.images_by_id) > 0
    THEN LET p == CHOOSE x \in DOMAIN w.images_by_id : TRUE
         IN  IF HasValKey(w.images_by_id[p], iid, "int")
             THEN Ok(w.images_by_id[p][iid.v].name)
             ELSE Raise("KeyError")
    ELSE Raise("Exception")

\* lines 1477-1489: names from ids (Screen, Plate)
PostImageNamesSPW(st, columns0, i) ==
    LET cols == st.columns
        ic == LastOfKind(columns0, "image")
        inc == LastOfKind(columns0, "image_name")
        pl == ByName(columns0, s_plate)
    IN  IF ic = 0 THEN PPState("AttributeError", cols, st.w)
        ELSE IF i > Len(cols[ic].values) THEN PPState("IndexError", cols, st.w)
        ELSE IF pl # 0 /\ i > Len(cols[pl].values) THEN PPState("IndexError", cols, st.w)
        ELSE LET pid == IF pl # 0 THEN cols[pl].values[i] ELSE NoneV
                 r == SPW_get_image_name_by_id(st.w, cols[ic].values[i], pid)
             IN  IF r.err # "none" THEN PPState(r.err, cols, st.w)
                 ELSE PPState("none", AppendText(cols, inc, r.v), st.w)

\* lines 1428-1491
PostImage(st, columns0, i, target) ==
    LET inc == LastOfKind(columns0, "image_name")
        names == KindHasValues(columns0, "image")
        ids == KindHasValues(columns0, "image_name")
    IN  IF st.err # "none" \/ inc = 0 THEN st
        ELSE IF target \in {"Dataset", "Project"} /\ names /\ ~ids
        THEN PostImageNames(st, columns0, i, target)
        ELSE IF target \in {"Dataset", "Project"} /\ ids /\ ~names
        THEN PostImageIds(st, columns0, i, target)
        ELSE IF target \in {"Screen", "Plate"}
        THEN PostImageNamesSPW(st, columns0, i)
        ELSE st

\* lines 1493-1499
PostPlateName(st, columns0, i) ==
    LET cols == st.columns
        pn == LastOfKind(columns0, "plate_name")
        pl == ByName(columns0, s_plate)
    IN  IF st.err # "none" \/ pn = 0 THEN st
        ELSE IF pl = 0 THEN PPState("KeyError", cols, st.w)
        ELSE IF i > Len(cols[pl].values) THEN PPState("IndexError", cols, st.w)
        ELSE IF ~HasAttr(st.w, "get_plate_name_by_id") THEN PPState("AttributeError", cols, st.w)
        ELSE IF ~HasValKey(st.w.plates_by_id, cols[pl].values[i], "int")
             THEN PPState("KeyError", cols, st.w)
        ELSE PPState("none",
                     AppendText(cols, pn, st.w.plates_by_id[cols[pl].values[i].v].name),
                     st.w)

\* lines 1501-1534
PostRoi(st, columns0, i, target) ==
    LET cols == st.columns
        w == st.w
        rc == LastOfKind(columns0, "roi")
        rnc == LastOfKind(columns0, "roi_name")
        names == KindHasValues(columns0, "roi")
        ids == KindHasValues(columns0, "roi_name")
    IN  IF st.err # "none" THEN st
        ELSE IF rc # 0 /\ target = "Image" /\ names /\ ~ids
        THEN IF i > Len(cols[rc].values) THEN PPState("IndexError", cols, w)
             ELSE LET rid == cols[rc].values[i]
                      rname == IF HasValKey(w.rois_by_id, rid, "int")
                               THEN w.rois_by_id[rid.v].name ELSE <<>>
                  IN  IF rnc = 0 THEN PPState("AttributeError", cols, w)
                      ELSE IF i - 1 # Len(cols[rnc].values)
                           THEN PPState("AssertionError", cols, w)
                      ELSE PPState("none", AppendText(cols, rnc, rname), w)
        ELSE IF rnc # 0 /\ target = "Image" /\ ids /\ ~names
        THEN IF w.ambiguous_naming THEN PPState("MetadataError", cols, w)
             ELSE IF i > Len(cols[rnc].values) THEN PPState("IndexError", cols, w)
             ELSE LET rname == cols[rnc].values[i]
                  IN  IF ~HasValKey(w.rois_by_name, rname, "str")
                      THEN \* the handler formats the name with %d
                           PPState("TypeError", cols, w)
                      ELSE IF rc = 0 THEN PPState("AttributeError", cols, w)
                      ELSE IF i - 1 # Len(cols[rc].values)
                           THEN PPState("AssertionError", cols, w)
                      ELSE PPState("none",
                                   AppendValue(cols, rc, IntV(w.rois_by_name[rname.v].id)),
                                   w)
        ELSE st

RECURSIVE PostLoop(_, _, _, _, _)
PostLoop(st, columns0, i, sz, target) ==
    IF st.err # "none" \/ i > sz THEN st
    ELSE PostLoop(
             PostRoi(PostPlateName(PostImage(PostWellName(st, columns0, i),
                                             columns0, i, target),
                                   columns0, i),
                     columns0, i, target),
             columns0, i + 1, sz, target)

RECURSIVE MaxLen(_)
MaxLen(columns) ==
    IF Len(columns) = 0 THEN 0
    ELSE Max(Len(Head(columns).values), MaxLen(Tail(columns)))

post_process(w, target, columns) ==
    IF /\ LastOfKind(columns, "well_name") = 0
       /\ LastOfKind(columns, "plate_name") = 0
       /\ LastOfKind(columns, "image_name") = 0
       /\ LastOfKind(columns, "roi_name") = 0
       /\ LastOfKind(columns, "roi") = 0
    THEN PPState("none", columns, w)
    ELSE PostLoop(PPState("none", columns, w), columns, 1, MaxLen(columns), target)

(***************************************************************************)
(* ParsingContext: populate_row and one row of preprocess_data.            *)
(***************************************************************************)
RowPairs(columns, cells) ==
    [i \in 1..Len(cells) |-> [column |-> columns[i], value |-> cells[i]]]

\* the columns populate_row may leave without a value (lines 1279-1287)
FilledLater(column) ==
    \/ column.cls \in {"ImageColumn", "RoiColumn"}
    \/ column.name \in {PLATE_NAME_COLUMN, WELL_NAME_COLUMN,
                        IMAGE_NAME_COLUMN, ROI_NAME_COLUMN}

\* what the resolve loop holds after a cell resolved to r
ResolveStep(st, r) ==
    [err |-> r.err,
     skip |-> r.err = "none" /\ IsSkip(r.v),
     values |-> IF r.err = "none" /\ ~IsSkip(r.v) THEN Append(st.values, r.v) ELSE st.values,
     w |-> r.w]

RECURSIVE ResolveCells(_, _, _, _, _)
\* the resolve loop of populate_row: stops at the first Skip or exception
ResolveCells(st, allow_nan, columns, row, i) ==
    IF i > Len(row) \/ st.err # "none" \/ st.skip THEN st
    ELSE ResolveCells(
             ResolveStep(st, resolve(st.w, allow_nan, row[i].column, row[i].value, row)),
             allow_nan, columns, row, i + 1)

\* AppendResolved appending, on a skip, the values resolved before the
\* skipping cell
AppendResolved_partial(r, columns) ==
    LET filled == [j \in 1..Len(columns) |->
                      IF j <= Len(r.values)
                      THEN [columns[j] EXCEPT !.values = Append(@, r.values[j])]
                      ELSE columns[j]]
    IN  IF r.err # "none"
        THEN [err |-> r.err, skip |-> r.skip, columns |-> columns, w |-> r.w]
        ELSE IF r.skip
        THEN [err |-> "none", skip |-> TRUE, columns |-> filled, w |-> r.w]
        ELSE IF \E j \in (Len(r.values) + 1)..Len(columns) : ~FilledLater(columns[j])
        THEN [err |-> "IndexError", skip |-> FALSE, columns |-> filled, w |-> r.w]
        ELSE [err |-> "none", skip |-> FALSE, columns |-> filled, w |-> r.w]

\* the second half of populate_row (lines 1275-1293): unless the row is
\* skipped, the resolved values r.values go to the columns in order
AppendResolved(r, columns) ==
    LET filled == [j \in 1..Len(columns) |->
                      IF j <= Len(r.values)
                      THEN [columns[j] EXCEPT !.values = Append(@, r.values[j])]
                      ELSE columns[j]]
    IN  IF r.err # "none" \/ r.skip
        THEN [err |-> r.err, skip |-> r.skip, columns |-> columns, w |-> r.w]
        ELSE IF \E j \in (Len(r.values) + 1)..Len(columns) : ~FilledLater(columns[j])
        THEN [err |-> "IndexError", skip |-> FALSE, columns |-> filled, w |-> r.w]
        ELSE [err |-> "none", skip |-> FALSE, columns |-> filled, w |-> r.w]

\* result: [err, skip, columns, w]
populate_row(w, allow_nan, columns, cells) ==
    IF Len(cells) > Len(columns)
    THEN [err |-> "IndexError", skip |-> FALSE, columns |-> columns, w |-> w]
    ELSE AppendResolved(
             ResolveCells([err |-> "none", skip |-> FALSE, values |-> <<>>, w |-> w],
                          allow_nan, columns, RowPairs(columns, cells), 1),
             columns)

\* the columns whose resolved ids preprocess_data keeps for post_process
KeptInPreprocess(column) ==
    \/ column.cls \in {"WellColumn", "ImageColumn", "RoiColumn"}
    \/ Lower(column.name) = s_plate
    \/ Lower(column.name) = s_dataset

\* column c after preprocess_data saw the resolved value r of one of its
\* cells (lines 1237-1253)
PreprocessColumn(c, r) ==
    LET size == IF IsStr(r.v) THEN Max(c.size, Len(r.v.v)) ELSE c.size
    IN  IF KeptInPreprocess(c)
        THEN [c EXCEPT !.size = size, !.values = Append(@, r.v)]
        ELSE [c EXCEPT !.size = size]

\* what the cell loop of preprocess_data holds after cell i resolved to r
PreprocessStep(st, r, i) ==
    [err |-> r.err,
     skip |-> r.err = "none" /\ IsSkip(r.v),
     columns |-> IF r.err = "none" /\ ~IsSkip(r.v)
                 THEN [st.columns EXCEPT ![i] = PreprocessColumn(@, r)]
                 ELSE st.columns,
     w |-> r.w]

RECURSIVE PreprocessCells(_, _, _, _)
\* the cell loop of preprocess_data (lines 1228-1257); st = [err, skip, columns, w]
PreprocessCells(st, allow_nan, row, i) ==
    IF i > Len(row) \/ st.err # "none" \/ st.skip THEN st
    ELSE PreprocessCells(
             PreprocessStep(st, resolve(st.w, allow_nan, row[i].column, row[i].value, row), i),
             allow_nan, row, i + 1)

\* variant: the buffers keep their values
ClearValues_keep(columns) == columns

\* column.values = [] for every column (lines 1313-1314 and 1261-1262)
ClearValues(columns) == [j \in 1..Len(columns) |-> [columns[j] EXCEPT !.values = <<>>]]

\* the end of an iteration of preprocess_data (lines 1260-1262): the buffers
\* are emptied once post_process (pp) has run
PreprocessClear(pp) ==
    IF pp.err # "none" THEN pp
    ELSE PPState("none", ClearValues(pp.columns), pp.w)

\* post_process on the one row the cell loop r kept
PreprocessPost(r, target) ==
    IF r.err # "none" THEN PPState(r.err, r.columns, r.w)
    ELSE PreprocessClear(post_process(r.w, target, r.columns))

\* one iteration of the row loop of preprocess_data: [err, columns, w]
preprocess_row(w, allow_nan, target, columns, cells) ==
    IF Len(cells) > Len(columns) THEN PPState("IndexError", columns, w)
    ELSE PreprocessPost(
             PreprocessCells([err |-> "none", skip |-> FALSE, columns |-> columns, w |-> w],
                             allow_nan, RowPairs(columns, cells), 1),
             target)

(***************************************************************************)
(* Input files.  A scenario fixes the target, the leading lines (an        *)
(* optional "# header" line and the header), the column_types argument     *)
(* and, per column, the cells a data line may hold.                        *)
(***************************************************************************)
Tgt(kind, id) == [kind |-> kind, id |-> id]

Scn(target, prefix, types, cells, nans) ==
    [target |-> target, prefix |-> prefix, types |-> types, cells |-> cells,
     nans |-> nans]

RECURSIVE Product(_)
\* all rows that take their i-th cell from the i-th set
Product(cells) ==
    IF Len(cells) = 0 THEN {<<>>}
    ELSE {<<c>> \o r : c \in Head(cells), r \in Product(Tail(cells))}

Scenarios ==
    { Scn(Tgt("Screen", 1), <<<<<<"P", "l", "a", "t", "e">>, <<"W", "e", "l", "l">>, <<"T", "y", "p", "e">>>>>>, NoneV,
          <<{<<"P", "1">>, <<"P", "2">>, <<"P", "X">>}, {<<"a", "1">>, <<"A", "0", "2">>, <<"B", "9">>}, {<<"x">>}>>, {FALSE}),
      Scn(Tgt("Screen", 1), <<<<<<"P", "l", "a", "t", "e">>, <<"W", "e", "l", "l">>, <<"I", "m", "a", "g", "e", " ", "N", "a", "m", "e">>>>>>, NoneV,
          <<{<<"P", "1">>, <<"P", "2">>}, {<<"A", "1">>}, {<<"A", "1">>}>>, {FALSE}),
      Scn(Tgt("Plate", 11), <<<<<<"W", "e", "l", "l">>, <<"T", "y", "p", "e">>>>>>, NoneV,
          <<{<<"A", "1">>, <<"a", "2">>, <<"C", "3">>, <<"1", "A">>}, {<<"x">>, <<>>}>>, {FALSE}),
      Scn(Tgt("Plate", 11), <<<<<<"P", "l", "a", "t", "e">>, <<"W", "e", "l", "l">>>>>>, NoneV,
          <<{<<"P", "1">>, <<"P", "2">>}, {<<"A", "1">>, <<"A", "9">>}>>, {FALSE}),
      Scn(Tgt("Plate", 11), <<<<<<"I", "m", "a", "g", "e">>, <<"T", "y", "p", "e">>>>>>, NoneV,
          <<{<<"3", "1">>, <<"3", "2">>, <<"9", "9">>}, {<<"x">>}>>, {FALSE}),
      Scn(Tgt("Plate", 11), <<<<<<"W", "e", "l", "l">>, <<"R", "o", "w">>, <<"C", "o", "n", "c">>>>>>,
          ListV(<<s_well, s_l, s_d>>),
          <<{<<"A", "1">>}, {<<"1">>, <<"b">>, <<>>}, {<<"0", ".", "5">>, <<>>, <<"x">>}>>, BOOLEAN),
      Scn(Tgt("Dataset", 41), <<<<<<"I", "m", "a", "g", "e", " ", "N", "a", "m", "e">>, <<"T", "y", "p", "e">>>>>>, NoneV,
          <<{<<"A", "1">>, <<"A", "2">>, <<"Z", "Z">>}, {<<"x">>}>>, {FALSE}),
      Scn(Tgt("Dataset", 41), <<<<<<"D", "a", "t", "a", "s", "e", "t", " ", "N", "a", "m", "e">>, <<"I", "m", "a", "g", "e", " ", "N", "a", "m", "e">>>>>>, NoneV,
          <<{<<"D", "1">>, <<"D", "2">>}, {<<"A", "1">>, <<"Z", "Z">>}>>, {FALSE}),
      Scn(Tgt("Dataset", 41), <<<<<<"D", "a", "t", "a", "s", "e", "t", " ", "N", "a", "m", "e">>, <<"I", "m", "a", "g", "e">>>>>>, NoneV,
          <<{<<"D", "1">>, <<"D", "2">>}, {<<"5", "1">>, <<"9", "9">>}>>, {FALSE}),
      Scn(Tgt("Dataset", 41), <<<<<<"I", "m", "a", "g", "e">>, <<"R", "o", "i">>, <<"C", "o", "u", "n", "t">>>>>>,
          ListV(<<s_image, s_roi, s_l>>),
          <<{<<"5", "1">>, <<"9", "9">>}, {<<"6", "1">>, <<"9", "9">>}, {<<"7">>, <<>>}>>, BOOLEAN),
      Scn(Tgt("Project", 2), <<<<<<"D", "a", "t", "a", "s", "e", "t", " ", "N", "a", "m", "e">>, <<"I", "m", "a", "g", "e", " ", "N", "a", "m", "e">>>>>>, NoneV,
          <<{<<"D", "1">>, <<"D", "2">>, <<"D", "X">>}, {<<"A", "1">>, <<"Z", "Z">>}>>, {FALSE}),
      Scn(Tgt("Project", 2), <<<<<<"D", "a", "t", "a", "s", "e", "t", " ", "N", "a", "m", "e">>, <<"I", "m", "a", "g", "e">>>>>>, NoneV,
          <<{<<"D", "1">>, <<"D", "2">>}, {<<"5", "1">>, <<"5", "3">>, <<"9", "9">>}>>, {FALSE}),
      Scn(Tgt("Project", 2), <<<<<<"I", "m", "a", "g", "e", " ", "N", "a", "m", "e">>, <<"D", "a", "t", "a", "s", "e", "t">>>>>>,
          ListV(<<s_s, s_dataset>>),
          <<{<<"A", "1">>, <<"Z", "Z">>}, {<<"4", "1">>, <<"4", "2">>, <<"9", "9">>}>>, {FALSE}),
      Scn(Tgt("Image", 51),
          <<<<<<"#", " ", "h", "e", "a", "d", "e", "r", " ", "s">>, <<"s">>, <<"d">>, <<"l">>>>,
            <<<<"R", "o", "i", " ", "N", "a", "m", "e">>, <<"T", "y", "p", "e">>, <<"C", "o", "n", "c">>, <<"C", "o", "u", "n", "t">>>>>>, NoneV,
          <<{<<"r", "1">>, <<"r", "2">>, <<"r", "X">>}, {<<"x">>}, {<<"0", ".", "5">>, <<>>}, {<<"1", "0", "0">>, <<>>}>>, BOOLEAN),
      Scn(Tgt("Image", 51), <<<<<<"R", "o", "i">>, <<"S", "h", "a", "p", "e">>>>>>, NoneV,
          <<{<<"6", "1">>, <<"9", "9">>, <<"x">>}, {<<"7", "1">>, <<"9", "9">>}>>, {FALSE}),
      \* schema failures
      Scn(Tgt("Plate", 11), <<<<<<"W", "e", "l", "l">>, <<"I", "m", "a", "g", "e">>>>>>, NoneV,
          <<{<<"A", "1">>}, {<<"3", "1">>}>>, {FALSE}),
      Scn(Tgt("Plate", 11), <<<<<<"W", "e", "l", "l">>, <<"T", "y", "p", "e">>>>>>, ListV(<<s_well>>),
          <<{<<"A", "1">>}, {<<"x">>}>>, {FALSE}),
      Scn(Tgt("Plate", 11), <<<<<<"W", "e", "l", "l">>, <<"T", "y", "p", "e">>>>>>, ListV(<<s_well, <<"z", "z">>>>),
          <<{<<"A", "1">>}, {<<"x">>}>>, {FALSE}),
      Scn(Tgt("Plate", 11),
          <<<<<<"#", " ", "h", "e", "a", "d", "e", "r", " ", "w", "e", "l", "l">>, <<"z", "z">>>>, <<<<"W", "e", "l", "l">>, <<"T", "y", "p", "e">>>>>>, NoneV,
          <<{<<"A", "1">>}, {<<"x">>}>>, {FALSE}),
      Scn(Tgt("Well", 21), <<<<<<"W", "e", "l", "l">>, <<"T", "y", "p", "e">>>>>>, NoneV,
          <<{<<"A", "1">>}, {<<"x">>}>>, {FALSE}),
      Scn(Tgt("Plate", 999), <<<<<<"W", "e", "l", "l">>, <<"T", "y", "p", "e">>>>>>, NoneV,
          <<{<<"A", "1">>}, {<<"x">>}>>, {FALSE}) }

\* the data lines of a scenario: its cell combinations and the empty line
DataRows(sc) == Product(sc.cells) \cup {<<>>}

RECURSIVE SeqsUpTo(_, _)
SeqsUpTo(S, n) ==
    IF n = 0 THEN {<<>>}
    ELSE LET shorter == SeqsUpTo(S, n - 1)
         IN  shorter \cup {Append(q, x) : q \in {r \in shorter : Len(r) = n - 1}, x \in S}

(***************************************************************************)
(* ParsingContext.parse as a state machine.  calls is the sequence of      *)
(* remote calls made so far; batches is what table.addData received; table *)
(* is the state of the handle sr.newTable returned: "none" before the call *)
(* and when it returned None, then "open", and "closed" after close().      *)
(***************************************************************************)
VARIABLES target, ctor_types, allow_nan, file, batch_size,
          pc, wrapper, column_types, columns, pos, row_count,
          filter_index, calls, batches, table, exc,
          args, repo, ctx

vars == <<target, ctor_types, allow_nan, file, batch_size,
          pc, wrapper, column_types, columns, pos, row_count,
          filter_index, calls, batches, table, exc,
          args, repo, ctx>>

inputs == <<target, ctor_types, allow_nan, file, batch_size>>

\* the arguments and the fields of an annotation context (BulkToMapAnnotation-
\* Context, DeleteMapAnnotationContext) and the annotations of the repository
annotating == <<args, repo, ctx>>

\* a ParsingContext run: no annotation context exists
NoAnnotationContext == args = NoneV /\ repo = NoneV /\ ctx = NoneV

Init ==
    /\ \E sc \in Scenarios :
         /\ target = sc.target
         /\ ctor_types = sc.types
         /\ allow_nan \in sc.nans
         /\ \E data \in SeqsUpTo(DataRows(sc), MaxRows) : file = sc.prefix \o data
    /\ batch_size \in 1..MaxBatch
    /\ pc = "new"
    /\ wrapper = NoneV
    /\ column_types = NoneV
    /\ columns = <<>>
    /\ pos = 0
    /\ row_count = 0
    /\ filter_index = -1
    /\ calls = <<>>
    /\ batches = <<>>
    /\ table = "none"
    /\ exc = "none"
    /\ NoAnnotationContext

\* an exception leaves parse; the table, if one is open, is not involved
RaiseOut(e) == pc' = "raised" /\ exc' = e

\* ParsingContext.__init__ (lines 1095-1107)
Construct ==
    /\ pc = "new"
    /\ \E r \in {ValueResolver_init(target.kind, target.id)} :
           IF r.err = "none"
           THEN /\ wrapper' = r.v
                /\ column_types' = ctor_types
                /\ pc' = "constructed"
                /\ exc' = exc
           ELSE /\ RaiseOut(r.err)
                /\ UNCHANGED <<wrapper, column_types>>
    /\ UNCHANGED <<annotating, inputs, columns, pos, row_count, filter_index, calls, batches, table>>

\* number of leading lines (type line and header) of the file
HeaderLines(f) == IF is_row_column_types(f[1]) THEN 2 ELSE 1

\* preprocess_from_handle up to create_columns (lines 1134-1156): [err, v]
\* with v = [types, columns]
preprocess_header(kind, f, types) ==
    IF Len(f) = 0 THEN Raise("StopIteration")
    ELSE IF Len(f[1]) = 0 THEN Raise("IndexError")
    ELSE IF is_row_column_types(f[1]) /\ Len(f) < 2 THEN Raise("StopIteration")
    ELSE IF \E i \in 1..Len(f[1]) : Len(f[1][i]) = 0 THEN Raise("Exception")
    ELSE LET first_row_is_types == is_row_column_types(f[1])
             header_row == IF first_row_is_types THEN f[2] ELSE f[1]
             t == IF types.t = "None" /\ first_row_is_types
                  THEN get_column_types(f[1]) ELSE Ok(types)
         IN  IF t.err # "none" THEN t
             ELSE LET c == create_columns(kind, header_row, t.v)
                  IN  IF c.err # "none" THEN c
                      ELSE Ok([types |-> t.v, columns |-> c.v])

PreprocessHeader ==
    /\ pc = "constructed"
    /\ \E r \in {preprocess_header(target.kind, file, column_types)} :
           IF r.err = "none"
           THEN /\ column_types' = r.v.types
                /\ columns' = r.v.columns
                /\ pos' = HeaderLines(file)
                /\ pc' = "phase1"
                /\ exc' = exc
           ELSE /\ RaiseOut(r.err)
                /\ UNCHANGED <<column_types, columns, pos>>
    /\ UNCHANGED <<annotating, inputs, wrapper, row_count, filter_index, calls, batches, table>>

\* one row of preprocess_data (lines 1226-1262)
PreprocessRow ==
    /\ pc = "phase1"
    /\ pos < Len(file)
    /\ \E r \in {preprocess_row(wrapper, allow_nan, target.kind, columns, file[pos + 1])} :
           /\ wrapper' = r.w
           /\ columns' = r.columns
           /\ IF r.err = "none"
              THEN pos' = pos + 1 /\ UNCHANGED <<pc, exc>>
              ELSE RaiseOut(r.err) /\ pos' = pos
    /\ UNCHANGED <<annotating, inputs, column_types, row_count, filter_index, calls, batches, table>>

\* the index of the column the row filter tests (lines 1168-1177), -1 if none
FilterHeaderIndex(kind, header_row) ==
    LET hit(i) == \/ kind = "Plate" /\ Lower(header_row[i]) = s_plate
                  \/ kind = "Dataset" /\ Lower(header_row[i]) = s_dataset_name
    IN  IF \E i \in 1..Len(header_row) : hit(i)
        THEN (CHOOSE i \in 1..Len(header_row) : hit(i) /\ \A j \in 1..(i - 1) : ~hit(j)) - 1
        ELSE -1

\* parse_from_handle_stream up to sr.newTable of create_table (lines
\* 1161-1202); the remote side may hand back no table
NewTable ==
    /\ pc = "phase1"
    /\ pos = Len(file)
    /\ filter_index' = FilterHeaderIndex(target.kind, file[HeaderLines(file)])
    /\ pos' = HeaderLines(file)
    /\ calls' = Append(calls, "newTable")
    /\ \E got \in BOOLEAN :
         IF got THEN pc' = "created" /\ exc' = exc /\ table' = "open"
         ELSE RaiseOut("MetadataError") /\ table' = table
    /\ UNCHANGED <<annotating, inputs, wrapper, column_types, columns, row_count, batches>>

\* table.initialize(self.columns) of create_table (line 1205)
InitializeTable ==
    /\ pc = "created"
    /\ calls' = Append(calls, "initialize")
    /\ \E ok \in BOOLEAN :
         IF ok THEN pc' = "populate" /\ exc' = exc
         ELSE RaiseOut("RemoteError")
    /\ UNCHANGED <<annotating, inputs, wrapper, column_types, columns, pos, row_count,
                   filter_index, batches, table>>

\* ParsingUtilFactory.get_filter_function applied to a row: [err, v]
filter_function(kind, column_index, target_name, row) ==
    IF kind \in {"Plate", "Dataset"} /\ column_index # -1
    THEN IF column_index + 1 > Len(row) THEN Raise("IndexError")
         ELSE Ok(row[column_index + 1] = target_name)
    ELSE Ok(TRUE)

\* variant: the handler of the try block goes on to save the link
RaiseInTry_annotate(e) == pc' = "annotate" /\ exc' = e

\* an exception inside the try block of parse_from_handle_stream
RaiseInTry(e) == pc' = "closing" /\ exc' = e

\* post_process and table.addData (lines 1311-1312 and 1321-1322); ok is
\* the outcome of the remote call.  A flush inside the loop (final = FALSE)
\* then empties the buffers and restarts the count (lines 1313-1315).
Flush(w, cols, ok, final) ==
    \E pp \in {post_process(w, target.kind, cols)} :
        IF pp.err # "none"
        THEN /\ wrapper' = pp.w
             /\ columns' = pp.columns
             /\ RaiseInTry(pp.err)
             /\ UNCHANGED <<calls, batches, row_count>>
        ELSE /\ wrapper' = pp.w
             /\ calls' = Append(calls, "addData")
             /\ IF ok
                THEN /\ batches' = Append(batches,
                                          [j \in 1..Len(pp.columns) |-> pp.columns[j].values])
                     /\ columns' = IF final THEN pp.columns ELSE ClearValues(pp.columns)
                     /\ row_count' = IF final THEN row_count ELSE 0
                     /\ pc' = IF final THEN "annotate" ELSE "populate"
                     /\ exc' = exc
                ELSE /\ columns' = pp.columns
                     /\ RaiseInTry("RemoteError")
                     /\ UNCHANGED <<batches, row_count>>

\* one iteration of the loop of populate_from_reader (lines 1304-1317)
PopulateRow ==
    /\ pc = "populate"
    /\ pos < Len(file)
    /\ \E row \in {file[pos + 1]} :
       \E f \in {filter_function(target.kind, filter_index, wrapper.target_name, row)} :
           IF f.err # "none"
           THEN /\ RaiseInTry(f.err)
                /\ UNCHANGED <<wrapper, columns, pos, row_count, calls, batches>>
           ELSE IF ~f.v \/ Len(row) = 0
           THEN /\ pos' = pos + 1
                /\ UNCHANGED <<wrapper, columns, row_count, calls, batches, pc, exc>>
           ELSE \E r \in {populate_row(wrapper, allow_nan, columns, row)} :
                    IF r.err # "none"
                    THEN /\ wrapper' = r.w
                         /\ columns' = r.columns
                         /\ RaiseInTry(r.err)
                         /\ UNCHANGED <<pos, row_count, calls, batches>>
                    ELSE IF row_count + 1 >= batch_size
                    THEN /\ pos' = pos + 1
                         /\ \E ok \in BOOLEAN : Flush(r.w, r.columns, ok, FALSE)
                    ELSE /\ pos' = pos + 1
                         /\ wrapper' = r.w
                         /\ columns' = r.columns
                         /\ row_count' = row_count + 1
                         /\ UNCHANGED <<calls, batches, pc, exc>>
    /\ UNCHANGED <<annotating, inputs, column_types, filter_index, table>>

\* the end of populate_from_reader (lines 1318-1322)
EndOfRows ==
    /\ pc = "populate"
    /\ pos = Len(file)
    /\ IF row_count # 0
       THEN \E ok \in BOOLEAN : Flush(wrapper, columns, ok, TRUE)
       ELSE /\ pc' = "annotate"
            /\ UNCHANGED <<wrapper, columns, row_count, calls, batches, exc>>
    /\ UNCHANGED <<annotating, inputs, column_types, pos, filter_index, table>>

\* create_file_annotation (lines 1324-1341): one saveObject of the link
CreateFileAnnotation ==
    /\ pc = "annotate"
    /\ calls' = Append(calls, "saveObject")
    /\ \E ok \in BOOLEAN :
         /\ pc' = "closing"
         /\ exc' = IF ok THEN "none" ELSE "RemoteError"
    /\ UNCHANGED <<annotating, inputs, wrapper, column_types, columns, pos, row_count,
                   filter_index, batches, table>>

\* the finally clause of parse_from_handle_stream (lines 1191-1192)
CloseTable ==
    /\ pc = "closing"
    /\ calls' = Append(calls, "close")
    /\ table' = "closed"
    /\ pc' = IF exc = "none" THEN "done" ELSE "raised"
    /\ UNCHANGED <<annotating, inputs, wrapper, column_types, columns, pos, row_count,
                   filter_index, batches, exc>>

Next ==
    \/ Construct
    \/ PreprocessHeader
    \/ PreprocessRow
    \/ NewTable
    \/ InitializeTable
    \/ PopulateRow
    \/ EndOfRows
    \/ CreateFileAnnotation
    \/ CloseTable

Spec == Init /\ [][Next]_vars

(***************************************************************************)
(* HeaderResolver.create_columns on its own: the file is a header line     *)
(* with no data line, and the constructor is given a type list that fits   *)
(* the header, one that is a token short, or none.                         *)
(***************************************************************************)
MaxHeader == 3

\* header tokens with the type declared for them
HeaderTokens ==
    { <<<<"P", "l", "a", "t", "e">>, s_plate>>, <<<<"W", "e", "l", "l">>, s_well>>, <<<<"I", "m", "a", "g", "e">>, s_image>>,
      <<<<"R", "O", "I">>, s_roi>>, <<<<"D", "a", "t", "a", "s", "e", "t">>, s_dataset>>,
      <<IMAGE_NAME_COLUMN, s_s>>, <<ROI_NAME_COLUMN, s_s>>,
      <<<<"p", "l", "a", "t", "e", "_", "i", "d">>, s_l>>, <<<<"a", "/", "b", " ", "%", "%", " ", "u", "n", "i", "t", "=", "n", "M">>, s_d>>, <<<<"T", "y", "p", "e">>, <<"z", "z">>>> }

HeaderTargets ==
    {Tgt("Screen", 1), Tgt("Plate", 11), Tgt("Dataset", 41), Tgt("Project", 2),
     Tgt("Image", 51)}

InitColumns ==
    /\ target \in HeaderTargets
    /\ \E h \in SeqsUpTo(HeaderTokens, MaxHeader) \ {<<>>} :
         /\ file = <<[i \in 1..Len(h) |-> h[i][1]]>>
         /\ ctor_types \in {ListV([i \in 1..Len(h) |-> h[i][2]]),
                            ListV([i \in 1..(Len(h) - 1) |-> h[i][2]]),
                            NoneV}
    /\ allow_nan = FALSE
    /\ batch_size = 1
    /\ pc = "new"
    /\ wrapper = NoneV
    /\ column_types = NoneV
    /\ columns = <<>>
    /\ pos = 0
    /\ row_count = 0
    /\ filter_index = -1
    /\ calls = <<>>
    /\ batches = <<>>
    /\ table = "none"
    /\ exc = "none"
    /\ NoAnnotationContext

NextColumns ==
    \/ Construct
    \/ PreprocessHeader

SpecColumns == InitColumns /\ [][NextColumns]_vars

(***************************************************************************)
(* Well labels: the parse of a one-line file whose well cell is a label,   *)
(* under a Plate or Screen target whose plate query returns a plate with a *)
(* well at a row and column drawn from a sample of the 52 rows.            *)
(***************************************************************************)
WellRows == {0, 1, 25, 26, 27, 51}

WellColumns == {0, 8, 9}

\* the label of 0-based (r, c): row letters in one case, the 1-based column
\* with or without a leading zero
LabelFor(r, c, upper, pad) ==
    LET alpha == IF upper THEN UpperAlpha ELSE LowerAlpha
    IN  (IF r < 26 THEN <<alpha[r + 1]>> ELSE <<alpha[1], alpha[r - 25]>>)
        \o (IF pad THEN <<"0">> ELSE <<>>) \o DecimalDigits(c + 1)

WellLabels ==
    {LabelFor(r, c, u, p) : r \in WellRows, c \in WellColumns, u \in BOOLEAN, p \in BOOLEAN}
    \cup {<<"1", "A">>, <<"z", "z", "9">>}

\* the plate the query of _load returns: a well at (r, c) and one at (2, 2)
PlateAt(r, c) ==
    [id |-> 11, name |-> n_P1,
     wells |-> <<Well(21, r, c, <<Image(31, n_A1)>>),
                 Well(22, 2, 2, <<Image(32, n_A2)>>)>>]

InitWells ==
    /\ target \in {Tgt("Plate", 11), Tgt("Screen", 1)}
    /\ \E label \in WellLabels :
         file = IF target.kind = "Screen"
                THEN <<<<s_Plate, s_Well>>, <<n_P1, label>>>>
                ELSE <<<<s_Well>>, <<label>>>>
    /\ ctor_types = NoneV
    /\ allow_nan = FALSE
    /\ batch_size = 1
    /\ pc = "new"
    /\ wrapper = NoneV
    /\ column_types = NoneV
    /\ columns = <<>>
    /\ pos = 0
    /\ row_count = 0
    /\ filter_index = -1
    /\ calls = <<>>
    /\ batches = <<>>
    /\ table = "none"
    /\ exc = "none"
    /\ NoAnnotationContext

\* ParsingContext.__init__ when the plate holds a well at (r, c)
LoadWells ==
    /\ pc = "new"
    /\ \E r \in WellRows, c \in WellColumns :
       \E res \in {IF target.kind = "Plate" THEN PlateWrapper_load(PlateAt(r, c))
                   ELSE ScreenWrapper_load([RepoScreen EXCEPT
                                              !.plates = <<PlateAt(r, c), RepoPlate2>>])} :
           /\ wrapper' = res.v
           /\ column_types' = ctor_types
           /\ pc' = "constructed"
    /\ UNCHANGED <<annotating, inputs, columns, pos, row_count, filter_index, calls, batches,
                   table, exc>>

NextWells ==
    \/ LoadWells
    \/ PreprocessHeader
    \/ PreprocessRow
    \/ NewTable
    \/ InitializeTable
    \/ PopulateRow
    \/ EndOfRows
    \/ CreateFileAnnotation
    \/ CloseTable

SpecWells == InitWells /\ [][NextWells]_vars

(***************************************************************************)
(* Shared display names: the parse of files that look entities up by name, *)
(* under targets of the repository whose children share a name and under   *)
(* the targets whose children do not.                                      *)
(***************************************************************************)
NameTargets ==
    {Tgt("Screen", 1), Tgt("Screen", 3), Tgt("Dataset", 41), Tgt("Dataset", 43),
     Tgt("Project", 2), Tgt("Project", 4), Tgt("Project", 5),
     Tgt("Image", 51), Tgt("Image", 55)}

\* the header and the data lines a file for a target kind is made of
NameFile(kind) ==
    CASE kind = "Screen" ->
             [header |-> <<s_Plate, s_Well>>,
              rows |-> {<<n_P1, n_A1>>, <<n_P2, n_A1>>}]
      [] kind = "Dataset" ->
             [header |-> <<IMAGE_NAME_COLUMN, <<"T", "y", "p", "e">>>>,
              rows |-> {<<n_A1, <<"x">>>>, <<n_A2, <<"x">>>>}]
      [] kind = "Project" ->
             [header |-> <<DATASET_NAME_COLUMN, IMAGE_NAME_COLUMN>>,
              rows |-> {<<n_D1, n_A1>>, <<n_D2, n_A2>>}]
      [] kind = "Image" ->
             [header |-> <<ROI_NAME_COLUMN, <<"T", "y", "p", "e">>>>,
              rows |-> {<<n_r1, <<"x">>>>, <<n_r2, <<"x">>>>}]

InitNames ==
    /\ target \in NameTargets
    /\ \E data \in SeqsUpTo(NameFile(target.kind).rows, MaxRows) :
         file = <<NameFile(target.kind).header>> \o data
    /\ ctor_types = NoneV
    /\ allow_nan = FALSE
    /\ batch_size \in 1..MaxBatch
    /\ pc = "new"
    /\ wrapper = NoneV
    /\ column_types = NoneV
    /\ columns = <<>>
    /\ pos = 0
    /\ row_count = 0
    /\ filter_index = -1
    /\ calls = <<>>
    /\ batches = <<>>
    /\ table = "none"
    /\ exc = "none"
    /\ NoAnnotationContext

SpecNames == InitNames /\ [][Next]_vars

(***************************************************************************)
(* Hierarchy indices: the parse of files under a project that name no      *)
(* dataset, under a dataset with roi ids, and under a screen.              *)
(***************************************************************************)
IndexScenarios ==
    { Scn(Tgt("Project", 2), <<<<IMAGE_NAME_COLUMN, <<"T", "y", "p", "e">>>>>>, NoneV,
          <<{n_A1, <<"Z", "Z">>}, {<<"x">>}>>, {FALSE}),
      Scn(Tgt("Project", 6), <<<<s_Image, <<"T", "y", "p", "e">>>>>>, NoneV,
          <<{<<"5", "1">>, <<"5", "2">>}, {<<"x">>}>>, {FALSE}),
      Scn(Tgt("Dataset", 41), <<<<s_Image, s_Roi, <<"C", "o", "u", "n", "t">>>>>>,
          ListV(<<s_image, s_roi, s_l>>),
          <<{<<"5", "1">>}, {<<"6", "1">>, <<"9", "9">>}, {<<"7">>}>>, {FALSE}),
      Scn(Tgt("Screen", 1), <<<<s_Plate, s_Well, <<"T", "y", "p", "e">>>>>>, NoneV,
          <<{n_P1, n_P2}, {n_A1}, {<<"x">>}>>, {FALSE}) }

InitIndices ==
    /\ \E sc \in IndexScenarios :
         /\ target = sc.target
         /\ ctor_types = sc.types
         /\ allow_nan \in sc.nans
         /\ \E data \in SeqsUpTo(DataRows(sc), MaxRows) : file = sc.prefix \o data
    /\ batch_size \in 1..MaxBatch
    /\ pc = "new"
    /\ wrapper = NoneV
    /\ column_types = NoneV
    /\ columns = <<>>
    /\ pos = 0
    /\ row_count = 0
    /\ filter_index = -1
    /\ calls = <<>>
    /\ batches = <<>>
    /\ table = "none"
    /\ exc = "none"
    /\ NoAnnotationContext

SpecIndices == InitIndices /\ [][Next]_vars

(***************************************************************************)
(* Roi names: the parse of files with a 'Roi Name' column under the images *)
(* of the repository.                                                      *)
(***************************************************************************)
InitRois ==
    /\ target \in {Tgt("Image", 51), Tgt("Image", 55), Tgt("Image", 56)}
    /\ \E data \in SeqsUpTo(NameFile("Image").rows, MaxRows) :
         file = <<NameFile("Image").header>> \o data
    /\ ctor_types = NoneV
    /\ allow_nan = FALSE
    /\ batch_size \in 1..MaxBatch
    /\ pc = "new"
    /\ wrapper = NoneV
    /\ column_types = NoneV
    /\ columns = <<>>
    /\ pos = 0
    /\ row_count = 0
    /\ filter_index = -1
    /\ calls = <<>>
    /\ batches = <<>>
    /\ table = "none"
    /\ exc = "none"
    /\ NoAnnotationContext

SpecRois == InitRois /\ [][Next]_vars

(***************************************************************************)
(* Header rows: the parse of files whose header row has an empty cell or   *)
(* tokens with a '%%' description, as the first row and as the row after a *)
(* '# header' row.                                                         *)
(***************************************************************************)
HeaderScenarios ==
    { Scn(Tgt("Plate", 11), <<<<s_Well, <<>>>>>>, NoneV,
          <<{n_A1}, {<<"x">>}>>, {FALSE}),
      Scn(Tgt("Plate", 11), <<<<s_Well, <<>>>>>>, ListV(<<s_well, s_s>>),
          <<{n_A1}, {<<"x">>}>>, {FALSE}),
      Scn(Tgt("Plate", 11), <<<<<<"#", " ", "h", "e", "a", "d", "e", "r", " ", "w", "e", "l", "l">>, s_s>>, <<s_Well, <<>>>>>>, NoneV,
          <<{n_A1, <<"C", "3">>}, {<<"x">>}>>, {FALSE}),
      Scn(Tgt("Plate", 11), <<<<<<"#", " ", "h", "e", "a", "d", "e", "r", " ", "w", "e", "l", "l">>, s_s>>, <<<<>>, <<"T", "y", "p", "e">>>>>>, NoneV,
          <<{n_A1, <<"C", "3">>}, {<<"x">>}>>, {FALSE}),
      Scn(Tgt("Screen", 1),
          <<<<<<"#", " ", "h", "e", "a", "d", "e", "r", " ", "p", "l", "a", "t", "e">>, s_well, s_s>>, <<s_Plate, s_Well, <<>>>>>>, NoneV,
          <<{n_P1, n_P2}, {n_A1}, {<<"x">>}>>, {FALSE}),
      Scn(Tgt("Plate", 11), <<<<<<"#", " ", "h", "e", "a", "d", "e", "r", " ", "w", "e", "l", "l">>, s_s>>, <<s_Well, <<"T", "y", "p", "e">>>>>>, NoneV,
          <<{n_A1, <<"C", "3">>}, {<<"x">>}>>, {FALSE}),
      Scn(Tgt("Plate", 11), <<<<<<"W", "e", "l", "l", "%", "%", "k", "=", "v">>, <<"T", "y", "p", "e">>>>>>, NoneV,
          <<{n_A1, <<"C", "3">>}, {<<"x">>}>>, {FALSE}),
      Scn(Tgt("Plate", 11), <<<<<<"W", "e", "l", "l", "%", "%", "k", "=", "v">>, <<"T", "y", "p", "e">>>>>>, ListV(<<s_well, s_s>>),
          <<{n_A1, <<"C", "3">>}, {<<"x">>}>>, {FALSE}),
      Scn(Tgt("Plate", 11),
          <<<<<<"#", " ", "h", "e", "a", "d", "e", "r", " ", "w", "e", "l", "l">>, s_d>>, <<<<"W", "e", "l", "l", " ", "%", "%", " ", "k", "=", "v">>, <<"C", "o", "n", "c", " ", "%", "%", " ", "u", "n", "i", "t", " ", "=", " ", "n", "M">>>>>>, NoneV,
          <<{n_A1}, {<<"0", ".", "5">>, <<"x">>}>>, {FALSE}),
      Scn(Tgt("Screen", 1), <<<<<<"P", "l", "a", "t", "e", "%", "%", "a", "=", "b">>, s_Well, <<"T", "y", "p", "e", "%", "%", "c", "=", "d">>>>>>, NoneV,
          <<{n_P1, n_P2}, {n_A1}, {<<"x">>}>>, {FALSE}),
      Scn(Tgt("Dataset", 41), <<<<<<"I", "m", "a", "g", "e", " ", "N", "a", "m", "e", " ", "%", "%", " ", "a", "=", "b">>, <<"T", "y", "p", "e">>>>>>, NoneV,
          <<{n_A1, <<"Z", "Z">>}, {<<"x">>}>>, {FALSE}),
      Scn(Tgt("Dataset", 41), <<<<<<"I", "m", "a", "g", "e", "%", "%", "a", "=", "b">>, <<"T", "y", "p", "e">>>>>>, NoneV,
          <<{<<"5", "1">>, <<"9", "9">>}, {<<"x">>}>>, {FALSE}),
      Scn(Tgt("Image", 51), <<<<<<"R", "o", "i", "%", "%", "k", "=", "v">>, <<"C", "o", "n", "c", "%", "%", "u", "n", "i", "t", "=", "n", "M">>>>>>, ListV(<<s_roi, s_d>>),
          <<{<<"6", "1">>, <<"9", "9">>}, {<<"0", ".", "5">>}>>, {FALSE}) }

InitHeaders ==
    /\ \E sc \in HeaderScenarios :
         /\ target = sc.target
         /\ ctor_types = sc.types
         /\ allow_nan \in sc.nans
         /\ \E data \in SeqsUpTo(DataRows(sc), MaxRows) : file = sc.prefix \o data
    /\ batch_size \in 1..MaxBatch
    /\ pc = "new"
    /\ wrapper = NoneV
    /\ column_types = NoneV
    /\ columns = <<>>
    /\ pos = 0
    /\ row_count = 0
    /\ filter_index = -1
    /\ calls = <<>>
    /\ batches = <<>>
    /\ table = "none"
    /\ exc = "none"
    /\ NoAnnotationContext

SpecHeaders == InitHeaders /\ [][Next]_vars

(***************************************************************************)
(* Map annotations.  The repository holds annotations and annotation       *)
(* links: an annotation is [id, cls, ns, kvs, event], a link is [id,       *)
(* parent, child, event] with parent = <<type, id>>; event numbers the     *)
(* session that saved the row, 0 for what was there before.                *)
(***************************************************************************)
NSBULKANNOTATIONS == "openmicroscopy.org/omero/bulk_annotations"

NSBULKANNOTATIONSCONFIG == "openmicroscopy.org/omero/bulk_annotations/config"

MAPR_NS_GENE == "openmicroscopy.org/mapr/gene"

Ann(id, cls, ns, kvs, event) ==
    [id |-> id, cls |-> cls, ns |-> ns, kvs |-> kvs, event |-> event]

Link(id, parent, child, event) ==
    [id |-> id, parent |-> parent, child |-> child, event |-> event]

\* the records of a set in ascending order of their id, and the <<type, id>>
\* pairs of a set in ascending order of their id
RECURSIVE Sorted(_)
Sorted(S) ==
    IF S = {} THEN <<>>
    ELSE LET m == CHOOSE x \in S : \A y \in S : x.id <= y.id
         IN  <<m>> \o Sorted(S \ {m})

RECURSIVE SortedPairs(_)
SortedPairs(S) ==
    IF S = {} THEN <<>>
    ELSE LET m == CHOOSE x \in S : \A y \in S : x[2] <= y[2]
         IN  <<m>> \o SortedPairs(S \ {m})

\* _QueryContext._batch: consecutive slices of at most sz elements
RECURSIVE _batch(_, _)
_batch(i, sz) ==
    IF Len(i) = 0 THEN <<>>
    ELSE IF Len(i) <= sz THEN <<i>>
    ELSE <<SubSeq(i, 1, sz)>> \o _batch(SubSeq(i, sz + 1, Len(i)), sz)

\* the loop of _QueryContext._grouped_batch with its running batch
RECURSIVE GroupedFrom(_, _, _)
GroupedFrom(groups, batch, sz) ==
    IF Len(groups) = 0 THEN (IF Len(batch) > 0 THEN <<batch>> ELSE <<>>)
    ELSE IF Len(batch) = 0 \/ Len(batch) + Len(Head(groups)) <= sz
    THEN GroupedFrom(Tail(groups), batch \o Head(groups), sz)
    ELSE <<batch>> \o GroupedFrom(Tail(groups), Head(groups), sz)

\* variant: a batch takes one element more than sz
_grouped_batch_over(groups, sz) == GroupedFrom(groups, <<>>, sz + 1)

_grouped_batch(groups, sz) == GroupedFrom(groups, <<>>, sz)

(***************************************************************************)
(* The canonicalizer of omero.util.metadata_mapannotations and the         *)
(* transformers of omero.util.metadata_utils, as far as populate.py uses   *)
(* them.  A canonical annotation is [id, ns, kvpairs, primary, parents],   *)
(* id = 0 for an annotation that is not saved yet.                         *)
(***************************************************************************)
\* KeyValueGroupList.get_transformers: one transformer per configured group,
\* its columns located in the headers of the table
get_transformers(headers, column_cfgs) ==
    [g \in 1..Len(column_cfgs) |->
        [name |-> column_cfgs[g].namespace,
         columns |-> [c \in 1..Len(column_cfgs[g].columns) |->
                         [index |-> CHOOSE n \in 1..Len(headers) :
                                        headers[n] = column_cfgs[g].columns[c].name,
                          key |-> column_cfgs[g].columns[c].name,
                          omitempty |-> column_cfgs[g].columns[c].omitempty]]]]

\* transform(row): the (key, value) pairs of the transformer's columns, a
\* column with omitempty left out when its cell is empty
RECURSIVE TransformFrom(_, _)
TransformFrom(cols, row) ==
    IF Len(cols) = 0 THEN <<>>
    ELSE (IF Head(cols).omitempty /\ row[Head(cols).index] = ""
          THEN <<>> ELSE <<<<Head(cols).key, row[Head(cols).index]>>>>)
         \o TransformFrom(Tail(cols), row)

transform(tr, row) == TransformFrom(tr.columns, row)

\* CanonicalMapAnnotation(ma, primary_keys): the primary key is the namespace
\* with the pairs of the primary key names; a missing name raises
CanonicalMapAnnotation(id, ns, kvpairs, primary_keys) ==
    IF primary_keys.t = "None"
    THEN Ok([id |-> id, ns |-> ns, kvpairs |-> kvpairs, primary |-> NoneV,
             parents |-> {}])
    ELSE IF \E k \in 1..Len(primary_keys.v) :
               \A i \in 1..Len(kvpairs) : kvpairs[i][1] # primary_keys.v[k]
    THEN Raise("MapAnnotationPrimaryKeyException")
    ELSE Ok([id |-> id, ns |-> ns, kvpairs |-> kvpairs,
             primary |-> ListV(<<ns, SelectSeq(kvpairs,
                                LAMBDA kv : \E k \in 1..Len(primary_keys.v) :
                                                kv[1] = primary_keys.v[k])>>),
             parents |-> {}])

\* a fresh MapAnnotationManager
MapAnnotationManager == [mapanns |-> <<>>, nokey |-> <<>>]

\* CanonicalMapAnnotation.merge: the pairs the other annotation adds
MergedPairs(kvpairs, other) ==
    kvpairs \o SelectSeq(other, LAMBDA kv : \A i \in 1..Len(kvpairs) : kvpairs[i] # kv)

\* MapAnnotationManager.add: an annotation without primary key is kept as it
\* is; one whose primary key is known is merged into the annotation that has
\* it (v.merged tells so), any other is stored
add(m, cma) ==
    IF cma.primary.t = "None"
    THEN [m |-> [m EXCEPT !.nokey = Append(@, cma)], merged |-> FALSE]
    ELSE IF \E i \in 1..Len(m.mapanns) : m.mapanns[i].primary = cma.primary
    THEN LET i == CHOOSE i \in 1..Len(m.mapanns) : m.mapanns[i].primary = cma.primary
         IN  [m |-> [m EXCEPT !.mapanns[i].parents = @ \cup cma.parents,
                              !.mapanns[i].kvpairs = MergedPairs(@, cma.kvpairs)],
              merged |-> TRUE]
    ELSE [m |-> [m EXCEPT !.mapanns = Append(@, cma)], merged |-> FALSE]

\* MapAnnotationManager.add_from_namespace_query: the saved map annotations
\* of the namespace are added; two of them with one primary key are an error
RECURSIVE AddSaved(_, _, _)
AddSaved(m, anns, keys) ==
    IF Len(anns) = 0 THEN Ok(m)
    ELSE LET cma == CanonicalMapAnnotation(Head(anns).id, Head(anns).ns,
                                           Head(anns).kvs, ListV(keys))
         IN  IF cma.err # "none" THEN cma
             ELSE IF add(m, cma.v).merged THEN Raise("Exception")
             ELSE AddSaved(add(m, cma.v).m, Tail(anns), keys)

add_from_namespace_query(m, r, ns, keys) ==
    AddSaved(m, Sorted({a \in r.anns : a.cls = "MapAnnotation" /\ a.ns = ns}), keys)

\* MapAnnotationManager.get_map_annotations
get_map_annotations(m) == m.mapanns \o m.nokey

(***************************************************************************)
(* BulkToMapAnnotationContext.                                             *)
(***************************************************************************)
\* the concatenation of a sequence of sequences
RECURSIVE Concat(_)
Concat(ss) == IF Len(ss) = 0 THEN <<>> ELSE Head(ss) \o Concat(Tail(ss))

\* the images of a well ('SELECT image.id FROM WellSample WHERE well.id=:id')
WellImages(id) ==
    Concat([p \in 1..Len(RepoScreen.plates) |->
        Concat([w \in 1..Len(RepoScreen.plates[p].wells) |->
            IF RepoScreen.plates[p].wells[w].id = id
            THEN [i \in 1..Len(RepoScreen.plates[p].wells[w].well_samples) |->
                     RepoScreen.plates[p].wells[w].well_samples[i].id]
            ELSE <<>>])])

\* _init_namespace_primarykeys over the entries of primary_group_keys: the
\* state is [err, v] with v = [pkmap, mapannotations]
RECURSIVE InitPrimaryKeys(_, _, _)
InitPrimaryKeys(pkcfg, st, r) ==
    IF Len(pkcfg) = 0 THEN Ok(st)
    ELSE LET gns == Head(pkcfg).namespace
             keys == Head(pkcfg).keys
         IN  IF Len(keys) = 0 THEN InitPrimaryKeys(Tail(pkcfg), st, r)
             ELSE IF HasKey(st.pkmap, gns) THEN Raise("Exception")
             ELSE LET m == add_from_namespace_query(st.mapannotations, r, gns, keys)
                  IN  IF m.err # "none" THEN m
                      ELSE InitPrimaryKeys(Tail(pkcfg),
                                           [pkmap |-> Put(st.pkmap, gns, keys),
                                            mapannotations |-> m.v], r)

_init_namespace_primarykeys(advanced_cfgs, r) ==
    IF advanced_cfgs.primary_group_keys.t = "None"
    THEN Ok([pkmap |-> EmptyDict, mapannotations |-> MapAnnotationManager])
    ELSE InitPrimaryKeys(advanced_cfgs.primary_group_keys.v,
                         [pkmap |-> EmptyDict, mapannotations |-> MapAnnotationManager], r)

_get_ns_primary_keys(pkmap, ns) ==
    IF HasKey(pkmap, ns) THEN ListV(pkmap[ns]) ELSE NoneV

\* _get_selected_namespaces and _get_configured_namespaces up to the KeyError
_get_selected_namespaces(options) ==
    IF options.ns.t = "None" THEN NoneV
    ELSE IF options.ns.t = "list" THEN options.ns
    ELSE ListV(<<options.ns.v>>)

_get_additional_targets(advanced_cfgs, tgt) ==
    IF advanced_cfgs.well_to_images = TRUE /\ tgt[1] = "Well"
    THEN [i \in 1..Len(WellImages(tgt[2])) |-> <<"Image", WellImages(tgt[2])[i]>>]
    ELSE <<>>

\* _create_cmap_annotation: [err, v], v = NoneV for an empty map value
_create_cmap_annotation(pkmap, targets, rowkvs, ns) ==
    IF Len(rowkvs) = 0 THEN Ok(NoneV)
    ELSE LET cma == CanonicalMapAnnotation(0, ns, rowkvs, _get_ns_primary_keys(pkmap, ns))
         IN  IF cma.err # "none" THEN cma
             ELSE Ok([cma.v EXCEPT !.parents = {targets[i] : i \in 1..Len(targets)}])

\* variant: a missing primary key never leaves populate
OnMissingPrimaryKey_continue(ignore_missing_primary_key) == "continue"

\* the except clause of populate (lines 1919-1927)
OnMissingPrimaryKey(ignore_missing_primary_key) ==
    IF ignore_missing_primary_key THEN "continue" ELSE "raise"

\* the columns of the table that name the objects to annotate (lines
\* 1872-1880) and the targets of a row (lines 1893-1903)
IdCols(cols) ==
    SelectSeq([n \in 1..Len(cols) |->
                  <<IF cols[n].cls = "ImageColumn" THEN "Image" ELSE "Well", n>>],
              LAMBDA p : cols[p[2]].cls \in {"ImageColumn", "WellColumn"})

\* variant: the id of a row is a target whatever its sign
RowTargets_any(advanced_cfgs, idcols, row) ==
    Concat([i \in 1..Len(idcols) |->
        <<<<idcols[i][1], row[idcols[i][2]]>>>>
        \o _get_additional_targets(advanced_cfgs, <<idcols[i][1], row[idcols[i][2]]>>)])

RowTargets(advanced_cfgs, idcols, row) ==
    Concat([i \in 1..Len(idcols) |->
        IF row[idcols[i][2]] > 0
        THEN <<<<idcols[i][1], row[idcols[i][2]]>>>>
             \o _get_additional_targets(advanced_cfgs, <<idcols[i][1], row[idcols[i][2]]>>)
        ELSE <<>>])

\* the loop over the transformers for one row (lines 1905-1927): [err, v]
\* with v the manager
RECURSIVE RowTransformers(_, _, _, _, _)
RowTransformers(trs, c, a, targets, row) ==
    IF Len(trs) = 0 THEN Ok(c.mapannotations)
    ELSE LET ns == IF Head(trs).name = "" THEN NSBULKANNOTATIONS ELSE Head(trs).name
             selected_nss == _get_selected_namespaces(a.options)
             rest(m) == RowTransformers(Tail(trs), [c EXCEPT !.mapannotations = m],
                                        a, targets, row)
         IN  IF selected_nss.t # "None"
                /\ \A i \in 1..Len(selected_nss.v) : selected_nss.v[i] # ns
             THEN rest(c.mapannotations)
             ELSE LET cma == _create_cmap_annotation(c.pkmap, targets,
                                                     transform(Head(trs), row), ns)
                  IN  IF cma.err # "none"
                      THEN IF OnMissingPrimaryKey(
                                  a.cfg.advanced.ignore_missing_primary_key = TRUE)
                              = "raise"
                           THEN cma
                           ELSE rest(c.mapannotations)
                      ELSE IF "t" \in DOMAIN cma.v THEN rest(c.mapannotations)
                      ELSE rest(add(c.mapannotations, cma.v).m)

\* the body of the row loop of populate
BulkToMap_populate_row(c, a, tbl, row) ==
    LET targets == RowTargets(a.cfg.advanced, IdCols(tbl.columns), row)
        trs == get_transformers([n \in 1..Len(tbl.columns) |-> tbl.columns[n].name],
                                a.cfg.column_cfgs)
    IN  IF Len(targets) = 0 THEN Ok(c.mapannotations)
        ELSE RowTransformers(trs, c, a, targets, row)

\* updateService.saveAndReturnArray(links): every unsaved annotation that is
\* the child of a link of the array is saved once, then the links
SaveArray(r, batch, cmas) ==
    LET fresh == {batch[i].c : i \in {i \in 1..Len(batch) : cmas[batch[i].c].id = 0}}
        newid(c) == r.next + Cardinality({d \in fresh : d < c})
        child(c) == IF cmas[c].id = 0 THEN newid(c) ELSE cmas[c].id
        n == r.next + Cardinality(fresh)
    IN  [r EXCEPT
           !.anns = @ \cup {Ann(newid(c), "MapAnnotation", cmas[c].ns,
                                cmas[c].kvpairs, r.event) : c \in fresh},
           !.links = @ \cup {Link(n + i - 1, batch[i].parent, child(batch[i].c),
                                  r.event) : i \in 1..Len(batch)},
           !.next = n + Len(batch)]

RECURSIVE SaveArrays(_, _, _)
SaveArrays(r, bs, cmas) ==
    IF Len(bs) = 0 THEN r ELSE SaveArrays(SaveArray(r, Head(bs), cmas), Tail(bs), cmas)

\* _write_links: the accumulated link lists, saved in grouped batches
_write_links(r, links, sz, cmas) == SaveArrays(r, _grouped_batch(links, sz), cmas)

\* variant: the links of the batches keep the unsaved annotation as child
_save_annotation_and_links_unset(r, links, c, sz, cmas) ==
    LET id == IF cmas[c].id = 0 THEN r.next ELSE cmas[c].id
        saved == IF cmas[c].id = 0
                 THEN [r EXCEPT !.anns = @ \cup {Ann(id, "MapAnnotation", cmas[c].ns,
                                                     cmas[c].kvpairs, r.event)},
                                !.next = @ + 1]
                 ELSE r
    IN  SaveArrays(saved, _batch(links, sz), cmas)

\* _save_annotation_and_links: the annotation first, then its links in
\* batches that refer to the saved annotation
_save_annotation_and_links(r, links, c, sz, cmas) ==
    LET id == IF cmas[c].id = 0 THEN r.next ELSE cmas[c].id
        saved == IF cmas[c].id = 0
                 THEN [r EXCEPT !.anns = @ \cup {Ann(id, "MapAnnotation", cmas[c].ns,
                                                     cmas[c].kvpairs, r.event)},
                                !.next = @ + 1]
                 ELSE r
    IN  SaveArrays(saved, _batch(links, sz), [cmas EXCEPT ![c].id = id])

\* _create_map_annotation_links: one link per parent of the annotation
_create_map_annotation_links(cmas, c) ==
    [i \in 1..Cardinality(cmas[c].parents) |->
        [parent |-> SortedPairs(cmas[c].parents)[i], c |-> c]]

\* the lengths of the arrays a sequence of batches hands to the update
\* service, and their sum (count += len(arr), sz += len(batch))
Sizes(bs) == [n \in 1..Len(bs) |-> Len(bs[n])]

Count(bs) == Len(Concat(bs))

\* one iteration of the loop of write_to_omero (lines 1940-1958):
\* [ctx, repo, remote], remote telling whether the server was called; i is
\* the running total of the method and saved the sizes of the arrays saved
write_iteration(c, r, sz) ==
    LET batch == _create_map_annotation_links(c.cmas, c.k + 1)
    IN  IF Len(batch) < sz
        THEN IF c.cur + Len(batch) > 10 * sz
             THEN [ctx |-> [c EXCEPT !.k = @ + 1, !.links = <<>>, !.cur = 0,
                                     !.i = @ + Count(_grouped_batch(Append(c.links, batch), sz)),
                                     !.saved = @ \o Sizes(_grouped_batch(Append(c.links, batch), sz))],
                   repo |-> _write_links(r, Append(c.links, batch), sz, c.cmas),
                   remote |-> TRUE]
             ELSE [ctx |-> [c EXCEPT !.k = @ + 1, !.links = Append(@, batch),
                                     !.cur = @ + Len(batch)],
                   repo |-> r, remote |-> FALSE]
        ELSE [ctx |-> [c EXCEPT !.k = @ + 1,
                                !.i = @ + Count(_batch(batch, sz)),
                                !.saved = @ \o Sizes(_batch(batch, sz))],
              repo |-> _save_annotation_and_links(r, batch, c.k + 1, sz, c.cmas),
              remote |-> TRUE]

\* the bulk-annotations table of plate 11 as ParsingContext wrote it, and
\* the rows it may hold
BulkColumns ==
    <<[cls |-> "WellColumn", name |-> "Well"],
      [cls |-> "StringColumn", name |-> "Gene"],
      [cls |-> "StringColumn", name |-> "Type"]>>

BulkRows == {<<21, "hh", "x">>, <<22, "hh", "x">>, <<22, "", "y">>, <<-1, "hh", "x">>}

\* the configuration: a default group and a gene group, with or without the
\* gene name as primary key of the gene namespace
BulkColumnCfgs ==
    <<[namespace |-> "",
       columns |-> <<[name |-> "Gene", omitempty |-> FALSE],
                     [name |-> "Type", omitempty |-> FALSE]>>],
      [namespace |-> MAPR_NS_GENE,
       columns |-> <<[name |-> "Gene", omitempty |-> TRUE],
                     [name |-> "Type", omitempty |-> FALSE]>>]>>

BulkAdvanced ==
    [primary_group_keys : {NoneV, ListV(<<[namespace |-> MAPR_NS_GENE,
                                         keys |-> <<"Gene">>]>>)},
     ignore_missing_primary_key : BOOLEAN,
     well_to_images : BOOLEAN]

\* the annotations in the repository before the first run: none, or a gene
\* annotation on a well of plate 12
BulkRepos ==
    {[anns |-> {}, links |-> {}, next |-> 100, event |-> 0],
     [anns |-> {Ann(90, "MapAnnotation", MAPR_NS_GENE,
                    <<<<"Gene", "hh">>, <<"Type", "x">>>>, 0)},
      links |-> {Link(91, <<"Well", 23>>, 90, 0)}, next |-> 100, event |-> 0]}

MaxRuns == 2

\* the state before the first run under a configuration of column groups
InitBulkWith(column_cfgs) ==
    /\ target = Tgt("Plate", 11)
    /\ batch_size \in 1..MaxBatch
    /\ \E adv \in BulkAdvanced, ns \in {NoneV, StrV(MAPR_NS_GENE), ListV(<<NSBULKANNOTATIONS>>)} :
         args = [context |-> "BulkToMapAnnotationContext",
                 cfg |-> [column_cfgs |-> column_cfgs, advanced |-> adv],
                 options |-> [ns |-> ns]]
    /\ \E r \in BulkRepos, rows \in SeqsUpTo(BulkRows, MaxRows) :
         repo = [anns |-> r.anns, links |-> r.links, next |-> r.next, event |-> r.event,
                 table |-> [columns |-> BulkColumns, rows |-> rows]]
    /\ ctx = NoneV
    /\ pc = "new"
    /\ pos = 0
    /\ calls = <<>>
    /\ table = "none"
    /\ exc = "none"
    /\ ctor_types = NoneV /\ allow_nan = FALSE /\ file = <<>>
    /\ wrapper = NoneV /\ column_types = NoneV /\ columns = <<>>
    /\ row_count = 0 /\ filter_index = -1 /\ batches = <<>>

InitBulk == InitBulkWith(BulkColumnCfgs)

\* what a ParsingContext run works on and an annotation context leaves alone
parsing == <<target, ctor_types, allow_nan, file, batch_size, wrapper,
             column_types, columns, row_count, filter_index, batches>>

\* BulkToMapAnnotationContext.__init__ (lines 1657-1692), for the first run
\* and for a further run over the same table in a new session
BulkConstruct ==
    /\ args.context = "BulkToMapAnnotationContext"
    /\ pc = "new" \/ (pc = "done" /\ repo.event < MaxRuns)
    /\ repo' = [repo EXCEPT !.event = @ + 1]
    /\ \E st \in {_init_namespace_primarykeys(args.cfg.advanced, repo)} :
           IF st.err = "none"
           THEN /\ ctx' = [pkmap |-> st.v.pkmap, mapannotations |-> st.v.mapannotations]
                /\ pc' = "constructed"
                /\ exc' = exc
           ELSE /\ RaiseOut(st.err)
                /\ ctx' = ctx
    /\ table' = "none"
    /\ pos' = 0
    /\ UNCHANGED <<parsing, args, calls>>

\* parse up to the try (lines 1836-1840): openTable and the assertion
BulkOpenTable ==
    /\ args.context = "BulkToMapAnnotationContext"
    /\ pc = "constructed"
    /\ calls' = Append(calls, "openTable")
    /\ \E got \in BOOLEAN :
         IF got
         THEN /\ table' = "open"
              /\ pc' = IF Len(repo.table.rows) = 0 THEN "finally" ELSE "populate"
              /\ exc' = exc
         ELSE /\ RaiseOut("AssertionError")
              /\ table' = table
    /\ UNCHANGED <<parsing, args, repo, ctx, pos>>

\* one row of populate (lines 1892-1927); an exception and the end of the
\* rows both lead to the finally clause of parse
BulkPopulateRow ==
    /\ args.context = "BulkToMapAnnotationContext"
    /\ pc = "populate"
    /\ pos < Len(repo.table.rows)
    /\ \E m \in {BulkToMap_populate_row(ctx, args, repo.table, repo.table.rows[pos + 1])} :
           IF m.err = "none"
           THEN /\ ctx' = [ctx EXCEPT !.mapannotations = m.v]
                /\ pos' = pos + 1
                /\ pc' = IF pos + 1 = Len(repo.table.rows) THEN "finally" ELSE pc
                /\ exc' = exc
           ELSE /\ pc' = "finally"
                /\ exc' = m.err
                /\ UNCHANGED <<ctx, pos>>
    /\ UNCHANGED <<parsing, args, repo, calls, table>>

\* the finally clause of parse (line 1844) and, unless an exception is on
\* its way, the start of write_to_omero (lines 1932-1939)
BulkCloseTable ==
    /\ args.context = "BulkToMapAnnotationContext"
    /\ pc = "finally"
    /\ table' = "closed"
    /\ calls' = Append(calls, "close")
    /\ IF exc = "none"
       THEN /\ pc' = "write"
            /\ ctx' = [pkmap |-> ctx.pkmap, mapannotations |-> ctx.mapannotations,
                       cmas |-> get_map_annotations(ctx.mapannotations),
                       k |-> 0, links |-> <<>>, cur |-> 0, i |-> 0, saved |-> <<>>]
       ELSE /\ pc' = "raised"
            /\ ctx' = ctx
    /\ UNCHANGED <<parsing, args, repo, pos, exc>>

\* one annotation of the loop of write_to_omero; a call of the server may
\* fail, and then nothing of the call is saved
BulkWriteAnnotation ==
    /\ args.context = "BulkToMapAnnotationContext"
    /\ pc = "write"
    /\ ctx.k < Len(ctx.cmas)
    /\ \E w \in {write_iteration(ctx, repo, batch_size)} :
       \E ok \in IF w.remote THEN BOOLEAN ELSE {TRUE} :
           IF ok
           THEN /\ ctx' = w.ctx
                /\ repo' = w.repo
                /\ calls' = IF w.remote THEN Append(calls, "save") ELSE calls
                /\ UNCHANGED <<pc, exc>>
           ELSE /\ RaiseOut("ServerError")
                /\ calls' = Append(calls, "save")
                /\ UNCHANGED <<ctx, repo>>
    /\ UNCHANGED <<parsing, args, pos, table>>

\* the remaining writes of write_to_omero (line 1960)
BulkWriteLinks ==
    /\ args.context = "BulkToMapAnnotationContext"
    /\ pc = "write"
    /\ ctx.k = Len(ctx.cmas)
    /\ \E ok \in IF Len(_grouped_batch(ctx.links, batch_size)) > 0 THEN BOOLEAN ELSE {TRUE} :
           IF ok
           THEN /\ repo' = _write_links(repo, ctx.links, batch_size, ctx.cmas)
                /\ ctx' = [ctx EXCEPT
                             !.i = @ + Count(_grouped_batch(ctx.links, batch_size)),
                             !.saved = @ \o Sizes(_grouped_batch(ctx.links, batch_size))]
                /\ pc' = "done"
                /\ exc' = exc
           ELSE /\ RaiseOut("ServerError")
                /\ UNCHANGED <<repo, ctx>>
    /\ calls' = IF Len(_grouped_batch(ctx.links, batch_size)) > 0
                THEN Append(calls, "save") ELSE calls
    /\ UNCHANGED <<parsing, args, pos, table>>

NextBulk ==
    \/ BulkConstruct
    \/ BulkOpenTable
    \/ BulkPopulateRow
    \/ BulkCloseTable
    \/ BulkWriteAnnotation
    \/ BulkWriteLinks

SpecBulk == InitBulk /\ [][NextBulk]_vars

(***************************************************************************)
(* Groups whose columns may all be left out: the default group holds the   *)
(* gene name only, and both columns of the gene group are omitted when     *)
(* empty.                                                                  *)
(***************************************************************************)
OmitColumnCfgs ==
    <<[namespace |-> "",
       columns |-> <<[name |-> "Gene", omitempty |-> TRUE]>>],
      [namespace |-> MAPR_NS_GENE,
       columns |-> <<[name |-> "Gene", omitempty |-> TRUE],
                     [name |-> "Type", omitempty |-> TRUE]>>]>>

InitOmit == InitBulkWith(OmitColumnCfgs)

SpecOmit == InitOmit /\ [][NextBulk]_vars

(***************************************************************************)
(* write_to_omero on its own: the annotations populate left in the manager *)
(* are any number of annotations with any number of parents.               *)
(***************************************************************************)
\* enough annotations of one link to pass 'cur > 10 * self.batch_size'
MaxAnns == 10 * MaxBatch + 2

\* the number of parents of the n-th annotation: one each, or one to three
WriteLinkCount(pattern, n) == IF pattern = 1 THEN 1 ELSE 1 + (n % 3)

\* the n-th annotation of the manager, told from the others by its pair; in
\* the third pattern the first annotation is the saved annotation 90
WriteCma(pattern, n) ==
    [id |-> IF pattern = 3 /\ n = 1 THEN 90 ELSE 0,
     ns |-> NSBULKANNOTATIONS,
     kvpairs |-> <<<<"Row", n>>>>,
     primary |-> NoneV,
     parents |-> {<<"Well", w>> : w \in 1..WriteLinkCount(pattern, n)}]

InitWrite ==
    /\ target = Tgt("Plate", 11)
    /\ batch_size \in 1..MaxBatch
    /\ args = [context |-> "BulkToMapAnnotationContext"]
    /\ \E pattern \in 1..3, n \in 0..MaxAnns :
         /\ repo = [anns |-> IF pattern = 3
                            THEN {Ann(90, "MapAnnotation", NSBULKANNOTATIONS,
                                      <<<<"Row", 1>>>>, 0)}
                            ELSE {},
                    links |-> {}, next |-> 100, event |-> 1,
                    table |-> [columns |-> BulkColumns, rows |-> <<>>]]
         /\ ctx = [pkmap |-> EmptyDict,
                   mapannotations |-> [mapanns |-> <<>>,
                                       nokey |-> [c \in 1..n |-> WriteCma(pattern, c)]],
                   cmas |-> [c \in 1..n |-> WriteCma(pattern, c)],
                   k |-> 0, links |-> <<>>, cur |-> 0, i |-> 0, saved |-> <<>>]
    /\ pc = "write"
    /\ pos = 0
    /\ calls = <<"openTable", "close">>
    /\ table = "closed"
    /\ exc = "none"
    /\ ctor_types = NoneV /\ allow_nan = FALSE /\ file = <<>>
    /\ wrapper = NoneV /\ column_types = NoneV /\ columns = <<>>
    /\ row_count = 0 /\ filter_index = -1 /\ batches = <<>>

NextWrite ==
    \/ BulkWriteAnnotation
    \/ BulkWriteLinks

SpecWrite == InitWrite /\ [][NextWrite]_vars

(***************************************************************************)
(* DeleteMapAnnotationContext.                                             *)
(***************************************************************************)
\* the plate acquisitions and the well samples of the repository: one
\* acquisition on plate 11 that took the field of image 31
RepoAcquisitions == <<[id |-> 81, plate |-> 11]>>

WellSamples ==
    Concat([p \in 1..Len(RepoScreen.plates) |->
        Concat([w \in 1..Len(RepoScreen.plates[p].wells) |->
            [i \in 1..Len(RepoScreen.plates[p].wells[w].well_samples) |->
                [id |-> RepoScreen.plates[p].wells[w].well_samples[i].id + 30,
                 well |-> RepoScreen.plates[p].wells[w].id,
                 image |-> RepoScreen.plates[p].wells[w].well_samples[i].id,
                 plateAcquisition |->
                     IF RepoScreen.plates[p].wells[w].well_samples[i].id = 31
                     THEN 81 ELSE 0]]])])

\* the ids of a list of records
IdsOf(s) == [i \in 1..Len(s) |-> s[i].id]

\* the projection queries of populate (lines 2077-2135), by the entity they
\* select from: the ids the query returns for the parent ids
Projection(q, ids) ==
    LET in(id) == \E i \in 1..Len(ids) : ids[i] = id
        of(s, sel(_), val(_)) ==
            Sorted({[id |-> val(s[i])] : i \in {i \in 1..Len(s) : sel(s[i])}})
        wells == Concat([p \in 1..Len(RepoScreen.plates) |->
                     [w \in 1..Len(RepoScreen.plates[p].wells) |->
                         [id |-> RepoScreen.plates[p].wells[w].id,
                          plate |-> RepoScreen.plates[p].id]]])
        images == Concat([d \in 1..Len(RepoProject.datasets) |->
                      [i \in 1..Len(RepoProject.datasets[d].images) |->
                          [id |-> RepoProject.datasets[d].images[i].id,
                           dataset |-> RepoProject.datasets[d].id]]])
    IN  IdsOf(CASE q = "ScreenPlateLink" ->
                      of(RepoScreen.plates, LAMBDA p : in(RepoScreen.id), LAMBDA p : p.id)
                [] q = "PlateAcquisition" ->
                      of(RepoAcquisitions, LAMBDA a : in(a.plate), LAMBDA a : a.id)
                [] q = "Well" -> of(wells, LAMBDA w : in(w.plate), LAMBDA w : w.id)
                [] q = "WellSample.plateAcquisition" ->
                      of(WellSamples, LAMBDA s : in(s.plateAcquisition), LAMBDA s : s.id)
                [] q = "WellSample.well" ->
                      of(WellSamples, LAMBDA s : in(s.well), LAMBDA s : s.id)
                [] q = "WellSample.image" ->
                      of(WellSamples, LAMBDA s : in(s.id), LAMBDA s : s.image)
                [] q = "ProjectDatasetLink" ->
                      of(RepoProject.datasets, LAMBDA d : in(RepoProject.id), LAMBDA d : d.id)
                [] q = "DatasetImageLink" ->
                      of(images, LAMBDA i : in(i.dataset), LAMBDA i : i.id))

\* the keys of parentids, in the order of the dict (lines 2062-2071)
ParentTypes ==
    <<"Screen", "Plate", "PlateAcquisition", "Well", "WellSample", "Image",
      "Dataset", "Project">>

\* the steps of populate that fill parentids (lines 2073-2138), in their
\* order; an empty list stands for None as well, the code tests both for
\* truth only
ParentStep(tgt, p, k) ==
    CASE k = 1 -> IF tgt.kind = "Screen" THEN [p EXCEPT !.Screen = <<tgt.id>>] ELSE p
      [] k = 2 -> IF Len(p.Screen) > 0
                  THEN [p EXCEPT !.Plate = Projection("ScreenPlateLink", p.Screen)] ELSE p
      [] k = 3 -> IF tgt.kind = "Plate" THEN [p EXCEPT !.Plate = <<tgt.id>>] ELSE p
      [] k = 4 -> IF Len(p.Plate) > 0
                  THEN [p EXCEPT !.PlateAcquisition = Projection("PlateAcquisition", p.Plate),
                                 !.Well = Projection("Well", p.Plate)]
                  ELSE p
      [] k = 5 -> IF tgt.kind = "PlateAcquisition"
                  THEN [p EXCEPT !.PlateAcquisition = <<tgt.id>>] ELSE p
      [] k = 6 -> IF Len(p.PlateAcquisition) > 0 /\ tgt.kind # "Plate"
                  THEN [p EXCEPT !.WellSample =
                           Projection("WellSample.plateAcquisition", p.PlateAcquisition)]
                  ELSE p
      [] k = 7 -> IF tgt.kind = "Well" THEN [p EXCEPT !.Well = <<tgt.id>>] ELSE p
      [] k = 8 -> IF Len(p.Well) > 0
                  THEN [p EXCEPT !.WellSample = Projection("WellSample.well", p.Well)] ELSE p
      [] k = 9 -> IF tgt.kind = "WellSample" THEN [p EXCEPT !.WellSample = <<tgt.id>>] ELSE p
      [] k = 10 -> IF Len(p.WellSample) > 0
                   THEN [p EXCEPT !.Image = Projection("WellSample.image", p.WellSample)]
                   ELSE p
      [] k = 11 -> IF tgt.kind = "Project" THEN [p EXCEPT !.Project = <<tgt.id>>] ELSE p
      [] k = 12 -> IF Len(p.Project) > 0
                   THEN [p EXCEPT !.Dataset = Projection("ProjectDatasetLink", p.Project)]
                   ELSE p
      [] k = 13 -> IF tgt.kind = "Dataset" THEN [p EXCEPT !.Dataset = <<tgt.id>>] ELSE p
      [] k = 14 -> IF Len(p.Dataset) > 0
                   THEN [p EXCEPT !.Image = Projection("DatasetImageLink", p.Dataset)]
                   ELSE p
      [] k = 15 -> IF tgt.kind = "Image" THEN [p EXCEPT !.Image = <<tgt.id>>] ELSE p

RECURSIVE ParentFrom(_, _, _)
ParentFrom(tgt, p, k) ==
    IF k > 15 THEN p
    ELSE CHOOSE r \in {ParentFrom(tgt, q, k + 1) : q \in {ParentStep(tgt, p, k)}} : TRUE

ParentIds(tgt) == ParentFrom(tgt, [t \in {ParentTypes[i] : i \in 1..Len(ParentTypes)} |-> <<>>], 1)

\* _get_configured_namespaces (lines 2038-2058), as a set
_get_configured_namespaces(a) ==
    IF a.options.ns.t = "list" THEN {a.options.ns.v[i] : i \in 1..Len(a.options.ns.v)}
    ELSE IF a.options.ns.t # "None" THEN {a.options.ns.v}
    ELSE {NSBULKANNOTATIONS, NSBULKANNOTATIONSCONFIG}
         \cup (IF a.column_cfgs.t = "None" THEN {}
               ELSE {a.column_cfgs.v[c].namespace : c \in
                        {c \in 1..Len(a.column_cfgs.v) :
                            a.column_cfgs.v[c].namespace # ""}})

\* _get_annotations_for_deletion (lines 2022-2036): the ids of the links, or
\* of their annotations, from objects of a type to annotations of a class
\* and of the namespaces
_get_annotations_for_deletion(r, objtype, objids, anntype, nss, getlink) ==
    LET links == {l \in r.links :
                    /\ l.parent[1] = objtype
                    /\ \E i \in 1..Len(objids) : objids[i] = l.parent[2]
                    /\ \E a \in r.anns : /\ a.id = l.child /\ a.cls = anntype
                                         /\ a.ns \in nss}
    IN  IF getlink THEN {l.id : l \in links} ELSE {l.child : l \in links}

\* variant: the file annotations are collected whatever attach says
CollectsFileAnnotations_always(a, nss) == NSBULKANNOTATIONSCONFIG \in nss

\* the test of line 2169
CollectsFileAnnotations(a, nss) == a.attach /\ NSBULKANNOTATIONSCONFIG \in nss

\* the collection of populate (lines 2158-2181) from parentids and the
\* namespaces: the link ids per object type, in the order of parentids, and
\* the file annotation ids
Collect(a, r, parentids, nss, annotatable) ==
    [mapannids |->
         SelectSeq([i \in 1..Len(annotatable) |->
                       [objtype |-> annotatable[i],
                        ids |-> _get_annotations_for_deletion(
                                    r, annotatable[i], parentids[annotatable[i]],
                                    "MapAnnotation", nss, TRUE)]],
                   LAMBDA f : f.ids # {}),
     fileannids |->
         IF CollectsFileAnnotations(a, nss)
         THEN UNION {_get_annotations_for_deletion(
                         r, annotatable[i], parentids[annotatable[i]],
                         "FileAnnotation", {NSBULKANNOTATIONSCONFIG}, FALSE)
                     : i \in 1..Len(annotatable)}
         ELSE {}]

\* variant: no type of parentids is passed over
Delete_populate_all(a, r, tgt) ==
    CHOOSE c \in {Collect(a, r, parentids, nss, ParentTypes) :
                      parentids \in {ParentIds(tgt)},
                      nss \in {_get_configured_namespaces(a)}} : TRUE

\* populate (lines 2060-2181)
Delete_populate(a, r, tgt) ==
    CHOOSE c \in {Collect(a, r, parentids, nss,
                          SelectSeq(ParentTypes, LAMBDA t : t # "WellSample")) :
                      parentids \in {ParentIds(tgt)},
                      nss \in {_get_configured_namespaces(a)}} : TRUE

\* the ids of a set as the list _batch makes of it
IdList(S) == IdsOf(Sorted({[id |-> x] : x \in S}))

\* the requests for the batches of one kind of object
Requests(type, objtype, bs) ==
    [b \in 1..Len(bs) |-> [type |-> type, objtype |-> objtype, ids |-> bs[b]]]

\* the submissions of write_to_omero in their order (lines 2183-2190)
Submissions(c, sz) ==
    Concat([i \in 1..Len(c.mapannids) |->
               Requests("AnnotationLink", c.mapannids[i].objtype,
                        _batch(IdList(c.mapannids[i].ids), sz))])
    \o Requests("FileAnnotation", "", _batch(IdList(c.fileannids), sz))

\* what a Delete2 that succeeds does: links go, and with them the map
\* annotations that no link refers to any more (lines 2153-2157); a file
\* annotation goes with every link to it
Delete2(r, sub) ==
    LET gone == {sub.ids[i] : i \in 1..Len(sub.ids)}
    IN  IF sub.type = "AnnotationLink"
        THEN LET links == {l \in r.links : l.id \notin gone}
             IN  [r EXCEPT !.links = links,
                           !.anns = {a \in @ : \/ a.cls # "MapAnnotation"
                                               \/ \E l \in links : l.child = a.id
                                               \/ \A l \in r.links : l.child # a.id}]
        ELSE [r EXCEPT !.links = {l \in @ : l.child \notin gone},
                       !.anns = {a \in @ : a.id \notin gone}]

\* variant: a failed submission is logged and the next batch goes on
OnSubmit_tolerant(outcome) ==
    IF outcome = "response" THEN "deleted" ELSE "logged"

\* _write_to_omero_batch (lines 2192-2218) by the outcome of client.submit:
\* a response with deletedObjects, a response without, CmdError, LockTimeout
OnSubmit(outcome) ==
    CASE outcome = "response" -> "deleted"
      [] outcome = "no deletedObjects" -> "logged"
      [] outcome = "CmdError" -> "Exception"
      [] outcome = "LockTimeout" -> "LockTimeout"

SubmitOutcomes == {"response", "no deletedObjects", "CmdError", "LockTimeout"}

\* the objects a run may be given
DeleteTargets ==
    {Tgt("Screen", 1), Tgt("Plate", 11), Tgt("PlateAcquisition", 81),
     Tgt("Well", 21), Tgt("Image", 31), Tgt("Project", 2), Tgt("Dataset", 41)}

NSOTHER == "example.org/other"

\* the annotations in the repository before a deletion: map annotations of
\* three namespaces, one of them shared by wells of two plates, the
\* configuration files of two plates and of a dataset, and the table file
DeleteRepo ==
    [anns |-> {Ann(101, "MapAnnotation", NSBULKANNOTATIONS, <<<<"Gene", "hh">>>>, 0),
               Ann(102, "MapAnnotation", NSBULKANNOTATIONS, <<<<"Gene", "hh">>>>, 0),
               Ann(103, "MapAnnotation", MAPR_NS_GENE, <<<<"Gene", "hh">>>>, 0),
               Ann(104, "MapAnnotation", MAPR_NS_GENE, <<<<"Gene", "x">>>>, 0),
               Ann(105, "MapAnnotation", NSBULKANNOTATIONS, <<<<"Gene", "hh">>>>, 0),
               Ann(106, "MapAnnotation", MAPR_NS_GENE, <<<<"Gene", "hh">>>>, 0),
               Ann(107, "MapAnnotation", NSOTHER, <<<<"k", "v">>>>, 0),
               Ann(110, "FileAnnotation", NSBULKANNOTATIONSCONFIG, <<>>, 0),
               Ann(111, "FileAnnotation", NSBULKANNOTATIONSCONFIG, <<>>, 0),
               Ann(112, "FileAnnotation", NSBULKANNOTATIONS, <<>>, 0)},
     links |-> {Link(201, <<"Well", 21>>, 101, 0),
                Link(202, <<"Well", 23>>, 102, 0),
                Link(203, <<"Well", 21>>, 103, 0),
                Link(204, <<"Well", 23>>, 103, 0),
                Link(205, <<"Image", 31>>, 104, 0),
                Link(206, <<"Image", 51>>, 105, 0),
                Link(207, <<"Dataset", 41>>, 106, 0),
                Link(208, <<"Image", 53>>, 106, 0),
                Link(209, <<"Well", 21>>, 107, 0),
                Link(210, <<"Screen", 1>>, 107, 0),
                Link(211, <<"Plate", 11>>, 110, 0),
                Link(212, <<"Plate", 12>>, 110, 0),
                Link(213, <<"Dataset", 41>>, 111, 0),
                Link(214, <<"Plate", 11>>, 112, 0)},
     next |-> 300, event |-> 0,
     table |-> [columns |-> <<>>, rows |-> <<>>]]

DeleteNamespaces ==
    {NoneV, StrV(NSBULKANNOTATIONS), StrV(MAPR_NS_GENE), StrV(NSBULKANNOTATIONSCONFIG),
     ListV(<<NSBULKANNOTATIONS, MAPR_NS_GENE>>)}

\* the state before a deletion run on one of the targets in a repository
InitDeleteWith(targets, r) ==
    /\ target \in targets
    /\ batch_size \in 1..MaxBatch
    /\ \E ns \in DeleteNamespaces, cfgs \in {NoneV, ListV(BulkColumnCfgs)},
          attach \in BOOLEAN, dry_run \in BOOLEAN :
         args = [context |-> "DeleteMapAnnotationContext",
                 cfg |-> [column_cfgs |-> cfgs],
                 options |-> [ns |-> ns],
                 attach |-> attach, dry_run |-> dry_run]
    /\ repo = r
    /\ ctx = NoneV
    /\ pc = "new"
    /\ pos = 0
    /\ calls = <<>>
    /\ table = "none"
    /\ exc = "none"
    /\ ctor_types = NoneV /\ allow_nan = FALSE /\ file = <<>>
    /\ wrapper = NoneV /\ column_types = NoneV /\ columns = <<>>
    /\ row_count = 0 /\ filter_index = -1 /\ batches = <<>>

InitDelete == InitDeleteWith(DeleteTargets, DeleteRepo)

\* DeleteMapAnnotationContext.__init__ (lines 1981-2014)
DeleteConstruct ==
    /\ args.context = "DeleteMapAnnotationContext"
    /\ pc = "new"
    /\ ctx' = [column_cfgs |-> args.cfg.column_cfgs, options |-> args.options,
               attach |-> args.attach, dry_run |-> args.dry_run,
               mapannids |-> <<>>, fileannids |-> {}]
    /\ pc' = "constructed"
    /\ UNCHANGED <<parsing, args, repo, pos, calls, table, exc>>

\* populate, the first call of parse (line 2017)
DeletePopulate ==
    /\ args.context = "DeleteMapAnnotationContext"
    /\ pc = "constructed"
    /\ \E p \in {Delete_populate(ctx, repo, target)} :
           ctx' = [ctx EXCEPT !.mapannids = p.mapannids, !.fileannids = p.fileannids]
    /\ pc' = "write"
    /\ pos' = 0
    /\ UNCHANGED <<parsing, args, repo, calls, table, exc>>

\* one _write_to_omero_batch of write_to_omero
DeleteSubmit ==
    /\ args.context = "DeleteMapAnnotationContext"
    /\ pc = "write"
    /\ pos < Len(Submissions(ctx, batch_size))
    /\ \E sub \in {Submissions(ctx, batch_size)[pos + 1]}, outcome \in SubmitOutcomes :
         /\ calls' = Append(calls, [targetObjects |-> sub, outcome |-> outcome])
         /\ \E o \in {OnSubmit(outcome)} :
              IF o \in {"deleted", "logged"}
              THEN /\ repo' = IF o = "deleted" /\ ~ctx.dry_run
                               THEN Delete2(repo, sub) ELSE repo
                   /\ pos' = pos + 1
                   /\ UNCHANGED <<pc, exc>>
              ELSE /\ RaiseOut(o)
                   /\ UNCHANGED <<repo, pos>>
    /\ UNCHANGED <<parsing, args, ctx, table>>

\* the end of write_to_omero and of parse
DeleteReturn ==
    /\ args.context = "DeleteMapAnnotationContext"
    /\ pc = "write"
    /\ pos = Len(Submissions(ctx, batch_size))
    /\ pc' = "done"
    /\ UNCHANGED <<parsing, args, repo, ctx, pos, calls, table, exc>>

NextDelete ==
    \/ DeleteConstruct
    \/ DeletePopulate
    \/ DeleteSubmit
    \/ DeleteReturn

SpecDelete == InitDelete /\ [][NextDelete]_vars

(***************************************************************************)
(* Deletion at every level: the repository also holds map annotations on   *)
(* a plate, an acquisition, a project and a well sample, and a well sample *)
(* may be the target.                                                      *)
(***************************************************************************)
LevelsRepo ==
    [DeleteRepo EXCEPT
       !.links = @ \cup {Link(215, <<"WellSample", 61>>, 104, 0),
                         Link(216, <<"Plate", 11>>, 101, 0),
                         Link(217, <<"PlateAcquisition", 81>>, 103, 0),
                         Link(218, <<"Project", 2>>, 105, 0),
                         Link(219, <<"Screen", 1>>, 102, 0)}]

InitLevels == InitDeleteWith(DeleteTargets \cup {Tgt("WellSample", 61)}, LevelsRepo)

SpecLevels == InitLevels /\ [][NextDelete]_vars

(***************************************************************************)
(* Properties of ParsingContext.parse.                                     *)
(***************************************************************************)
\* the data lines of the file, in order
DataLines == SubSeq(file, HeaderLines(file) + 1, Len(file))

RECURSIVE BatchRows(_, _)
\* the number of values column j received over the batches bs
BatchRows(bs, j) ==
    IF Len(bs) = 0 THEN 0 ELSE Len(Head(bs)[j]) + BatchRows(Tail(bs), j)

\* the number of table rows table.addData has been given
RowsWritten == IF Len(columns) = 0 THEN 0 ELSE BatchRows(batches, 1)

\* line passes the row filter of the second pass
PassesFilter(line) ==
    LET f == filter_function(target.kind, filter_index, wrapper.target_name, line)
    IN  f.err = "none" /\ f.v

\* resolving line yields the skip signal
TriggersSkip(line) ==
    populate_row(wrapper, allow_nan, ClearValues(columns), line).skip

\* C1: a file of N data rows that all pass the row filter and trigger no
\* skip, with fully-empty lines anywhere among them, is parsed without the
\* empty lines raising anything, and the finished table holds exactly N rows:
\* a step of either pass that reads an empty line raises nothing and makes no
\* remote call, and a completed parse has written one row per non-empty line.
C1_EmptyLinesSkipped ==
    /\ [](pc = "done"
          /\ (\A i \in 1..Len(DataLines) :
                Len(DataLines[i]) > 0 =>
                  PassesFilter(DataLines[i]) /\ ~TriggersSkip(DataLines[i]))
          => RowsWritten = Cardinality({i \in 1..Len(DataLines) : Len(DataLines[i]) > 0}))
    /\ [][(pc \in {"phase1", "populate"} /\ pos < Len(file) /\ Len(file[pos + 1]) = 0)
          => (exc' = "none" /\ pc' = pc /\ pos' = pos + 1 /\ calls' = calls)]_vars

\* x is the sentinel that stands for "not found"
IsSentinel(x) == IsInt(x) /\ x.v = -1

\* the names the images and the rois of the repository have
RepoImageNames == {n_A1, n_A2}
RepoRoiNames == {n_r1, n_r2}

\* cols, holding one resolved row, has an identifier cell without a match in
\* the hierarchy: an id lookup (well label, image id, roi id, shape id) that
\* gave the sentinel, or an image or roi name no object has
HasUnmatched(cols) ==
    \E j \in 1..Len(cols) :
        /\ Len(cols[j].values) > 0
        /\ \/ /\ \/ cols[j].cls \in {"WellColumn", "ImageColumn", "RoiColumn"}
                 \/ Lower(cols[j].name) = s_shape
              /\ IsSentinel(cols[j].values[1])
           \/ /\ cols[j].name = IMAGE_NAME_COLUMN
              /\ target.kind \in {"Dataset", "Project"}
              /\ IsStr(cols[j].values[1])
              /\ cols[j].values[1].v \notin RepoImageNames
           \/ /\ cols[j].name = ROI_NAME_COLUMN
              /\ target.kind = "Image"
              /\ IsStr(cols[j].values[1])
              /\ cols[j].values[1].v \notin RepoRoiNames

\* in cols, one post-processed row of n input cells, every unmatched
\* identifier shows as -1 in its id column and as the empty string in the
\* appended name column derived from it
SentinelWritten(cols, n) ==
    LET has(j) == Len(cols[j].values) > 0
        derived(cls, name) ==
            \A j, k \in 1..Len(cols) :
                (j <= n /\ cols[j].cls = cls /\ has(j) /\ IsSentinel(cols[j].values[1])
                 /\ k > n /\ cols[k].name = name /\ cols[k].cls = "StringColumn")
                => (has(k) /\ IsStr(cols[k].values[1]) /\ Len(cols[k].values[1].v) = 0)
        looked_up(name, cls, names) ==
            \A j, k \in 1..Len(cols) :
                (j <= n /\ cols[j].name = name /\ has(j) /\ IsStr(cols[j].values[1])
                 /\ cols[j].values[1].v \notin names /\ k > n /\ cols[k].cls = cls)
                => (has(k) /\ IsSentinel(cols[k].values[1]))
    IN  /\ derived("WellColumn", WELL_NAME_COLUMN)
        /\ derived("ImageColumn", IMAGE_NAME_COLUMN)
        /\ derived("RoiColumn", ROI_NAME_COLUMN)
        /\ target.kind \in {"Dataset", "Project"}
             => looked_up(IMAGE_NAME_COLUMN, "ImageColumn", RepoImageNames)
        /\ target.kind = "Image"
             => looked_up(ROI_NAME_COLUMN, "RoiColumn", RepoRoiNames)

\* C2: for every target kind and every identifier lookup, a cell whose value
\* has no match in the hierarchy never aborts the parse: when the next line
\* resolves without a skip and holds an unmatched identifier, the first pass
\* takes it without raising, and in the second pass post_process takes it
\* without raising and leaves -1 in the id column and the empty string in
\* the derived name column.
C2_UnmatchedNeverAborts ==
    (pc \in {"phase1", "populate"} /\ pos < Len(file) /\ Len(file[pos + 1]) > 0) =>
        LET line == file[pos + 1]
            r == populate_row(wrapper, allow_nan, ClearValues(columns), line)
        IN  (r.err = "none" /\ ~r.skip /\ HasUnmatched(r.columns)) =>
                IF pc = "phase1"
                THEN preprocess_row(wrapper, allow_nan, target.kind, columns, line).err = "none"
                ELSE PassesFilter(line) =>
                         LET pp == post_process(r.w, target.kind, r.columns)
                         IN  pp.err = "none" /\ SentinelWritten(pp.columns, Len(line))

\* the number of values input column j holds, written or still buffered,
\* while the row loop runs
Held(j) == BatchRows(batches, j) + Len(columns[j].values)

\* C3: a row in which resolve returns Skip for some cell leaves every column
\* as it was, the cells resolved before the skipping cell included, so the
\* row never reaches the table; any other row that resolves, also one with
\* a cell resolved to -1, adds one value to every input column.
C3_SkipWritesNothing ==
    [][(/\ pc = "populate" /\ pos < Len(file) /\ Len(file[pos + 1]) > 0
        /\ PassesFilter(file[pos + 1])
        /\ exc' = "none")
       => LET line == file[pos + 1]
              r == populate_row(wrapper, allow_nan, columns, line)
          IN  /\ r.skip => \A j \in 1..Len(line) : Held(j)' = Held(j)
              /\ (r.err = "none" /\ ~r.skip)
                   => \A j \in 1..Len(line) : Held(j)' = Held(j) + 1]_vars

\* a finished parse of two lines, one skipped after its first cell was
\* resolved and one written with a -1
C3_Witness ==
    /\ pc = "done"
    /\ Len(DataLines) = 2
    /\ \E i \in 1..2 :
         /\ TriggersSkip(DataLines[i])
         /\ resolve(wrapper, allow_nan, columns[1], DataLines[i][1],
                    RowPairs(columns, DataLines[i])).err = "none"
         /\ ~IsSkip(resolve(wrapper, allow_nan, columns[1], DataLines[i][1],
                            RowPairs(columns, DataLines[i])).v)
    /\ RowsWritten = 1
    /\ \E b \in 1..Len(batches) : \E j \in 1..Len(batches[b]) :
         Len(batches[b][j]) = 1 /\ IsSentinel(batches[b][j][1])

\* an empty cell under a column of type long or double
NumericEmpty(column, cell) ==
    column.cls \in {"LongColumn", "DoubleColumn"} /\ Len(cell) = 0

\* C4: an empty cell under a long or double column, whatever the column is
\* called, resolves to NaN when allow_nan is set and the NaN is the value the
\* row stores; without allow_nan it raises ValueError and the first pass
\* over the row raises out of the parse.
C4_EmptyNumericCell ==
    (pc \in {"phase1", "populate"} /\ pos < Len(file) /\ Len(file[pos + 1]) > 0) =>
        LET line == file[pos + 1]
        IN  \A i \in 1..Len(line) :
                NumericEmpty(columns[i], line[i]) =>
                    /\ LET r == resolve(wrapper, allow_nan, columns[i], line[i],
                                        RowPairs(columns, line))
                       IN  IF allow_nan THEN r.err = "none" /\ IsNaN(r.v)
                           ELSE r.err = "ValueError"
                    /\ (~allow_nan /\ pc = "phase1") =>
                           preprocess_row(wrapper, allow_nan, target.kind, columns,
                                          line).err = "ValueError"
                    /\ allow_nan =>
                           LET p == populate_row(wrapper, allow_nan,
                                                 ClearValues(columns), line)
                           IN  (p.err = "none" /\ ~p.skip) =>
                                   p.columns[i].values = <<NaN>>

\* how many times a remote call occurs in a call sequence
CallCount(cs, name) == Cardinality({i \in 1..Len(cs) : cs[i] = name})

\* C5: a parse that completes has saved exactly one annotation link, after
\* every addData; a step saves the link only once the rows are exhausted and
\* every addData so far succeeded, and once an exception is pending (raised
\* by row resolution, post-processing or a batch write, none of which had a
\* link saved before them) no link is saved any more.
C5_OneLinkAfterLastBatch ==
    /\ [](pc = "done" =>
            /\ CallCount(calls, "saveObject") = 1
            /\ \A i, j \in 1..Len(calls) :
                 (calls[i] = "addData" /\ calls[j] = "saveObject") => i < j)
    /\ [][/\ exc # "none" =>
               CallCount(calls', "saveObject") = CallCount(calls, "saveObject")
          /\ (pc = "populate" /\ exc' # "none") => CallCount(calls', "saveObject") = 0
          /\ CallCount(calls', "saveObject") > CallCount(calls, "saveObject") =>
               /\ pos = Len(file)
               /\ CallCount(calls, "addData") = Len(batches)
               /\ CallCount(calls, "saveObject") = 0]_vars

\* a completed parse that wrote two batches and then saved the link
C5_Witness ==
    /\ pc = "done"
    /\ Len(batches) = 2
    /\ CallCount(calls, "addData") = 2
    /\ calls[Len(calls) - 1] = "saveObject"

\* C6: once parse has returned or raised, a table handle that newTable
\* handed out has been closed, by exactly one close call.
C6_TableClosedOnce ==
    (pc \in {"done", "raised"} /\ table # "none") =>
        table = "closed" /\ CallCount(calls, "close") = 1

\* the header line of the file and the types declared for it, by the
\* constructor argument or else by a leading '# header' line: [err, v]
HeaderRow == file[HeaderLines(file)]
DeclaredTypes ==
    IF ctor_types.t # "None" THEN Ok(ctor_types) ELSE get_column_types(file[1])

\* the inputs for which schema construction fails
SchemaFails ==
    \/ target.kind \notin SupportedTargets
    \/ DeclaredTypes.err # "none"
    \/ /\ target.kind \in SupportedTargets
       /\ DeclaredTypes.err = "none"
       /\ IF DeclaredTypes.v.t # "None"
          THEN \/ Len(DeclaredTypes.v.v) # Len(HeaderRow)
               \/ \E i \in 1..Len(HeaderRow) :
                    DeclaredTypes.v.v[i] \notin DOMAIN COLUMN_TYPES
               \/ \E i, j \in 1..Len(HeaderRow) :
                    /\ COLUMN_TYPES[DeclaredTypes.v.v[i]] = "WellColumn"
                    /\ COLUMN_TYPES[DeclaredTypes.v.v[j]] = "ImageColumn"
          ELSE \E i, j \in 1..Len(HeaderRow) :
                 /\ HeaderClass(target.kind, HeaderRow[i], NoneV, i) = "WellColumn"
                 /\ HeaderClass(target.kind, HeaderRow[j], NoneV, j) = "ImageColumn"

\* C7: when the type list and the header differ in length, a type token is
\* not recognised, the target kind is not supported, or the header has a
\* well column and an image column, the parse never gets past schema
\* construction: no remote call is made and the only way on is to raise.
C7_SchemaFailureBeforeWrites ==
    SchemaFails => calls = <<>> /\ pc \in {"new", "constructed", "raised"}

\* the parse of a supported target has raised for a well column next to an
\* image column
C7_Witness ==
    /\ pc = "raised"
    /\ calls = <<>>
    /\ target.kind \in SupportedTargets
    /\ DeclaredTypes.err = "none"
    /\ DeclaredTypes.v.t = "None"
    /\ SchemaFails

\* the class and name of every column of a list
Shape(cols) == [i \in 1..Len(cols) |-> <<cols[i].cls, cols[i].name>>]

IdClasses == {"PlateColumn", "WellColumn", "ImageColumn", "RoiColumn", "DatasetColumn"}

\* the display name of an id class
IdKindName(cls) ==
    CASE cls = "PlateColumn" -> s_Plate
      [] cls = "WellColumn" -> s_Well
      [] cls = "ImageColumn" -> s_Image
      [] cls = "RoiColumn" -> s_Roi
      [] cls = "DatasetColumn" -> s_Dataset

\* the constructor was given a type list create_columns accepts for the header
TypesFit ==
    /\ ctor_types.t = "list"
    /\ Len(ctor_types.v) = Len(HeaderRow)
    /\ \A i \in 1..Len(HeaderRow) : ctor_types.v[i] \in DOMAIN COLUMN_TYPES
    /\ ~ /\ \E i \in 1..Len(HeaderRow) : COLUMN_TYPES[ctor_types.v[i]] = "WellColumn"
         /\ \E i \in 1..Len(HeaderRow) : COLUMN_TYPES[ctor_types.v[i]] = "ImageColumn"

TypeOf(i) == COLUMN_TYPES[ctor_types.v[i]]

ClaimedInput(i) ==
    IF TypeOf(i) \in IdClasses THEN <<TypeOf(i), IdKindName(TypeOf(i))>>
    ELSE <<TypeOf(i), HeaderName(HeaderRow[i])>>

ClaimedCompanion(i) ==
    IF TypeOf(i) \in IdClasses \ {"DatasetColumn"}
    THEN << <<"StringColumn", IdKindName(TypeOf(i)) \o <<" ", "N", "a", "m", "e">> >> >>
    ELSE IF HeaderName(HeaderRow[i]) = IMAGE_NAME_COLUMN THEN << <<"ImageColumn", s_Image>> >>
    ELSE IF HeaderName(HeaderRow[i]) = ROI_NAME_COLUMN THEN << <<"RoiColumn", s_Roi>> >>
    ELSE <<>>

Renames(cls) ==
    \/ cls \in {"PlateColumn", "WellColumn", "ImageColumn", "DatasetColumn"}
    \/ cls = "RoiColumn" /\ target.kind # "Dataset"

ActualInput(i) ==
    <<TypeOf(i), IF Renames(TypeOf(i)) THEN IdKindName(TypeOf(i))
                 ELSE HeaderName(HeaderRow[i])>>

ActualCompanion(i) ==
    IF Renames(TypeOf(i)) /\ TypeOf(i) # "DatasetColumn"
    THEN << <<"StringColumn", ActualInput(i)[2] \o <<" ", "N", "a", "m", "e">> >> >>
    ELSE IF ActualInput(i)[2] = IMAGE_NAME_COLUMN THEN << <<"ImageColumn", s_Image>> >>
    ELSE IF ActualInput(i)[2] = ROI_NAME_COLUMN THEN << <<"RoiColumn", s_Roi>> >>
    ELSE <<>>

\* a roi id column next to a column named 'Roi Name'
RoiConflict ==
    /\ \E i \in 1..Len(HeaderRow) : TypeOf(i) = "RoiColumn"
    /\ \E i \in 1..Len(HeaderRow) : ActualInput(i)[2] = ROI_NAME_COLUMN

Appended(cls, name) ==
    Cardinality({k \in (Len(HeaderRow) + 1)..Len(columns) :
                     columns[k].cls = cls /\ columns[k].name = name})

\* the input columns of an id class
IdColumns(cls) == {i \in 1..Len(HeaderRow) : columns[i].cls = cls}

\* the header has an id column of the class and a column of the companion's name
NameConflict(cls) ==
    /\ IdColumns(cls) # {}
    /\ \E i \in 1..Len(HeaderRow) :
         columns[i].name = IdKindName(cls) \o <<" ", "N", "a", "m", "e">>

\* C9: when the header has an Image id column and an 'Image Name' column, or
\* a Roi id column and a 'Roi Name' column, nothing is appended for that
\* kind, neither the name column nor the id column, and every id column of
\* another kind that takes a companion gets exactly one 'X Name' column.
C9_NoCompanionForNamedKind ==
    (pc = "phase1" /\ (NameConflict("ImageColumn") \/ NameConflict("RoiColumn"))) =>
        \A cls \in {"PlateColumn", "WellColumn", "ImageColumn", "RoiColumn"} :
            LET name == IdKindName(cls) \o <<" ", "N", "a", "m", "e">>
            IN  IF cls \in {"ImageColumn", "RoiColumn"} /\ NameConflict(cls)
                THEN Appended("StringColumn", name) = 0
                     /\ Appended(cls, IdKindName(cls)) = 0
                ELSE Renames(cls) =>
                        Appended("StringColumn", name) = Cardinality(IdColumns(cls))

\* the images of a plate or of a dataset of the repository
ImagesIn(container) ==
    IF "wells" \in DOMAIN container
    THEN Concat([i \in 1..Len(container.wells) |-> container.wells[i].well_samples])
    ELSE container.images

\* the containers a line of the file names as the parent of its image: the
\* plate of its 'Plate' cell under a Screen, the target under a Dataset, the
\* dataset of its 'Dataset Name' cell under a Project
ParentScopes(line) ==
    CASE target.kind = "Screen" ->
             {RepoScreen.plates[p] : p \in {p \in 1..Len(RepoScreen.plates) :
                 \E j \in 1..Len(line) : /\ columns[j].cls = "PlateColumn"
                                         /\ RepoScreen.plates[p].name = line[j]}}
      [] target.kind = "Dataset" -> {RepoDataset1}
      [] target.kind = "Project" ->
             {RepoProject.datasets[d] : d \in {d \in 1..Len(RepoProject.datasets) :
                 \E j \in 1..Len(line) : /\ Lower(columns[j].name) = s_dataset_name
                                         /\ RepoProject.datasets[d].name = line[j]}}
      [] OTHER -> {}

\* the ids of the images that carry the line's 'Image Name' in its parent
ExpectedImageIds(line) ==
    {im.id : im \in UNION {{ImagesIn(c)[i] : i \in {i \in 1..Len(ImagesIn(c)) :
                                \E j \in 1..Len(line) :
                                    /\ columns[j].name = IMAGE_NAME_COLUMN
                                    /\ columns[j].cls = "StringColumn"
                                    /\ ImagesIn(c)[i].name = line[j]}}
                           : c \in ParentScopes(line)}}

\* C10: under a Screen, Dataset or Project target whose header has an
\* 'Image Name' column, a line that names an image of its parent scope is
\* taken by the first pass without raising, and in the second pass it is
\* resolved and post-processed without raising and the appended 'Image' id
\* column holds the id of that image.
C10_ImageIdFromName ==
    (/\ pc \in {"phase1", "populate"} /\ pos < Len(file) /\ Len(file[pos + 1]) > 0
     /\ target.kind \in {"Screen", "Dataset", "Project"}) =>
        LET line == file[pos + 1]
        IN  ExpectedImageIds(line) # {} =>
                IF pc = "phase1"
                THEN preprocess_row(wrapper, allow_nan, target.kind, columns, line).err = "none"
                ELSE PassesFilter(line) =>
                       LET r == populate_row(wrapper, allow_nan, ClearValues(columns), line)
                           pp == post_process(r.w, target.kind, r.columns)
                       IN  /\ r.err = "none" /\ ~r.skip
                           /\ pp.err = "none"
                           /\ \E k \in (Len(line) + 1)..Len(pp.columns) :
                                /\ pp.columns[k].cls = "ImageColumn"
                                /\ Len(pp.columns[k].values) = 1
                                /\ IsInt(pp.columns[k].values[1])
                                /\ pp.columns[k].values[1].v \in ExpectedImageIds(line)

\* the number of leading letters of a label
LeadingLetters(s) == Cardinality({i \in 1..Len(s) : \A j \in 1..i : IsLetter(s[j])})

\* the 0-based (row, column) a label stands for: one letter counts from a,
\* 'a' and a letter counts on from 26; row -1 when the letters name no row
DecodeLabel(label) ==
    LET k == LeadingLetters(label)
        l == Lower(SubSeq(label, 1, k))
    IN  [row |-> IF k = 1 THEN IndexIn(LowerAlpha, l[1]) - 1
                 ELSE IF k = 2 /\ l[1] = "a" THEN 26 + IndexIn(LowerAlpha, l[2]) - 1
                 ELSE -1,
         column |-> DigitsValue(SubSeq(label, k + 1, Len(label))) - 1]

\* the wells the wrapper has loaded for plate 11, by id
LoadedWells == wrapper.wells_by_id[11]

\* the plate id get_well_name is handed: the resolved 'Plate' cell of a Screen
NamePlate == IF target.kind = "Screen" THEN IntV(11) ELSE NoneV

\* C11: a well label that matches the well pattern never makes resolve
\* raise; when the plate has a well at the row and column the label stands
\* for, resolve returns that well's id and get_well_name of the id gives a
\* label standing for the same row and column; when it has none, resolve
\* returns -1.  A finished parse has written exactly that id.
C11_WellLabelRoundTrip ==
    (/\ pc \in {"phase1", "populate", "done"} /\ Len(file) = 2
     /\ WellRegexMatches(file[2][Len(file[2])])) =>
        LET line == file[2]
            n == Len(line)
            label == line[n]
            d == DecodeLabel(label)
            hits == {id \in DOMAIN LoadedWells :
                        /\ LoadedWells[id].row = d.row
                        /\ LoadedWells[id].column = d.column}
        IN  IF pc = "done"
            THEN /\ Len(batches) = 1
                 /\ Len(batches[1][n]) = 1
                 /\ IF hits = {} THEN batches[1][n][1] = IntV(-1)
                    ELSE batches[1][n][1].v \in hits
            ELSE LET res == resolve(wrapper, allow_nan, columns[n], label,
                                    RowPairs(columns, line))
                 IN  /\ res.err = "none"
                     /\ IsInt(res.v)
                     /\ IF hits = {} THEN res.v.v = -1
                        ELSE /\ res.v.v \in hits
                             /\ get_well_name(wrapper, res.v, NamePlate).err = "none"
                             /\ DecodeLabel(get_well_name(wrapper, res.v, NamePlate).v) = d

\* a finished parse under a Screen that wrote the id of the well in row 27
\* from an upper-case label with a leading zero
C11_Witness ==
    /\ pc = "done"
    /\ target.kind = "Screen"
    /\ file[2][2] = <<"A", "B", "0", "9">>
    /\ batches = <<<<<<IntV(11)>>, <<IntV(21)>>, <<StrV(n_P1)>>,
                     <<StrV(<<"a", "b", "9">>)>>>>>>

\* the entities the loader of the target looks up by name: the plates of a
\* screen, the datasets of a project, the images of a dataset, the rois of an
\* image, each with the container its name is looked up in and the class of
\* the column its id is written to
LookedUpByName ==
    LET found == RepoFind(target.kind, target.id)
        o == found[1]
        images(d) == {[cls |-> "ImageColumn", scope |-> d.id,
                       id |-> d.images[i].id, name |-> d.images[i].name]
                      : i \in 1..Len(d.images)}
    IN  IF found = <<>> THEN {}
        ELSE CASE target.kind = "Screen" ->
                      {[cls |-> "PlateColumn", scope |-> o.id,
                        id |-> o.plates[i].id, name |-> o.plates[i].name]
                       : i \in 1..Len(o.plates)}
               [] target.kind = "Dataset" -> images(o)
               [] target.kind = "Project" ->
                      {[cls |-> "DatasetColumn", scope |-> o.id,
                        id |-> o.datasets[i].id, name |-> o.datasets[i].name]
                       : i \in 1..Len(o.datasets)}
                      \cup UNION {images(o.datasets[i]) : i \in 1..Len(o.datasets)}
               [] target.kind = "Image" ->
                      {[cls |-> "RoiColumn", scope |-> o.id,
                        id |-> o.shapes[i].roi.id, name |-> o.shapes[i].roi.name]
                       : i \in 1..Len(o.shapes)}
               [] OTHER -> {}

\* the ids, per column class, of the entities that share their name with
\* another entity of the same container
DuplicateIds(cls) ==
    {e.id : e \in {e \in LookedUpByName :
                     /\ e.cls = cls
                     /\ \E f \in LookedUpByName : /\ f.cls = e.cls
                                                  /\ f.scope = e.scope
                                                  /\ f.name = e.name
                                                  /\ f.id # e.id}}

\* C17: when entities looked up by name share a name (two plates of the
\* screen, two datasets of the project, two images of a dataset, two rois of
\* the image), no batch written to the table holds, in the id column of that
\* kind, the id of one of the entities that share the name: the load or the
\* resolution has failed instead.
C17_NoIdOfDuplicateName ==
    \A b \in 1..Len(batches) : \A k \in 1..Len(batches[b]) :
        k <= Len(columns) =>
            \A i \in 1..Len(batches[b][k]) :
                IsInt(batches[b][k][i]) =>
                    batches[b][k][i].v \notin DuplicateIds(columns[k].cls)

\* a long column that resolve treats as a plate row or plate column index
IsRowOrColumn(column) ==
    column.cls = "LongColumn" /\ Lower(column.name) \in {s_row, s_column}

\* what resolve returns for every cell of the line the parse is about to read
Resolved(i) ==
    resolve(wrapper, allow_nan, columns[i], file[pos + 1][i],
            RowPairs(columns, file[pos + 1]))

C19_EmptyHeaderCellRejected ==
    (\E i \in 1..Len(HeaderRow) : Len(HeaderRow[i]) = 0) =>
        /\ pc \in {"new", "constructed", "raised"}
        /\ calls = <<>>
        /\ table = "none"

\* the text of a header token before its '%%', stripped: the bare token
BareToken(h) ==
    IF Contains(<<"%", "%">>, h)
    THEN Strip(SubSeq(h, 1, FindFirst(<<"%", "%">>, h)))
    ELSE h

\* the file with every token of its header row replaced by the bare token
BareFile ==
    [file EXCEPT ![HeaderLines(file)] =
        [i \in 1..Len(HeaderRow) |-> BareToken(HeaderRow[i])]]

\* a token NAME%%key=value
HasPayload(h) ==
    /\ Contains(<<"%", "%">>, h)
    /\ Contains(<<"=">>, SubSeq(h, FindFirst(<<"%", "%">>, h) + 3, Len(h)))

\* the key and the value of the payload of a token, stripped
PayloadKey(h) ==
    LET d == SubSeq(h, FindFirst(<<"%", "%">>, h) + 3, Len(h))
    IN  Strip(SubSeq(d, 1, FindFirst(<<"=">>, d)))

PayloadValue(h) ==
    LET d == SubSeq(h, FindFirst(<<"%", "%">>, h) + 3, Len(h))
    IN  Strip(SubSeq(d, FindFirst(<<"=">>, d) + 2, Len(d)))

\* C20: a header whose tokens carry a '%%key=value' description yields the
\* columns the header of the bare tokens yields for the same target and
\* types: the same outcome, the same classes and names in the same order,
\* companions included; and the column of a token with a payload is described
\* by the JSON object {key: value}.
C20_DescriptionSplitBeforeTyping ==
    (pc = "constructed" /\ Len(file) >= HeaderLines(file)
     /\ \E i \in 1..Len(HeaderRow) : HasPayload(HeaderRow[i])) =>
        \E r \in {preprocess_header(target.kind, file, column_types)} :
        \E b \in {preprocess_header(target.kind, BareFile, column_types)} :
            /\ r.err = b.err
            /\ r.err = "none" =>
                   /\ Shape(r.v.columns) = Shape(b.v.columns)
                   /\ \A i \in 1..Len(HeaderRow) :
                          HasPayload(HeaderRow[i]) =>
                              r.v.columns[i].description =
                                  JsonDumps1(PayloadKey(HeaderRow[i]),
                                             PayloadValue(HeaderRow[i]))

\* the map annotations of a namespace linked to an object
AnnotationsOf(parent, ns) ==
    {a \in repo.anns : /\ a.cls = "MapAnnotation" /\ a.ns = ns
                       /\ \E l \in repo.links : l.parent = parent /\ l.child = a.id}

\* C12: when a second BulkToMapAnnotationContext.parse over the same table
\* and configuration has completed, it has saved no map annotation, so every
\* namespace has as many map annotations as after the first run, and every
\* object has at most one map annotation of each namespace.
C12_SecondRunAddsNothing ==
    (args.context = "BulkToMapAnnotationContext" /\ pc = "done" /\ repo.event = 2) =>
        /\ \A a \in repo.anns : a.cls = "MapAnnotation" => a.event # 2
        /\ \A l \in repo.links : \A ns \in {NSBULKANNOTATIONS, MAPR_NS_GENE} :
               Cardinality(AnnotationsOf(l.parent, ns)) <= 1

\* the rows of the table read so far that name an object, with the
\* transformers selected for the run
SelectedTransformers ==
    LET trs == get_transformers([n \in 1..Len(repo.table.columns) |->
                                    repo.table.columns[n].name], args.cfg.column_cfgs)
        ns(tr) == IF tr.name = "" THEN NSBULKANNOTATIONS ELSE tr.name
        sel == _get_selected_namespaces(args.options)
    IN  {[ns |-> ns(trs[i]), columns |-> trs[i].columns] : i \in
            {i \in 1..Len(trs) : sel.t = "None" \/ \E j \in 1..Len(sel.v) : sel.v[j] = ns(trs[i])}}

\* the primary key names configured for a namespace
KeysOfNamespace(ns) ==
    IF args.cfg.advanced.primary_group_keys.t = "None" THEN {}
    ELSE UNION {{pk.keys[k] : k \in 1..Len(pk.keys)} : pk \in
                   {args.cfg.advanced.primary_group_keys.v[i] :
                       i \in {i \in 1..Len(args.cfg.advanced.primary_group_keys.v) :
                              args.cfg.advanced.primary_group_keys.v[i].namespace = ns}}}

\* row r of the table, for transformer tr, has key/value pairs but lacks a
\* primary key of the namespace
Offending(r, tr) ==
    /\ \E n \in 1..Len(repo.table.columns) :
          repo.table.columns[n].cls \in {"WellColumn", "ImageColumn"}
          /\ repo.table.rows[r][n] > 0
    /\ Len(TransformFrom(tr.columns, repo.table.rows[r])) > 0
    /\ \E k \in KeysOfNamespace(tr.ns) :
          \A i \in 1..Len(TransformFrom(tr.columns, repo.table.rows[r])) :
              TransformFrom(tr.columns, repo.table.rows[r])[i][1] # k

\* row r of the table, for transformer tr, is to be annotated
Annotating(r, tr) ==
    /\ \E n \in 1..Len(repo.table.columns) :
          repo.table.columns[n].cls \in {"WellColumn", "ImageColumn"}
          /\ repo.table.rows[r][n] > 0
    /\ Len(TransformFrom(tr.columns, repo.table.rows[r])) > 0
    /\ ~Offending(r, tr)

\* the object of row r carries, from this run, an annotation of the
\* transformer's namespace with the pairs of the row
Written(r, tr) ==
    \A n \in 1..Len(repo.table.columns) :
        (repo.table.columns[n].cls \in {"WellColumn", "ImageColumn"}
         /\ repo.table.rows[r][n] > 0) =>
            \E a \in repo.anns : \E l \in repo.links :
                /\ a.ns = tr.ns
                /\ l.child = a.id
                /\ l.event = repo.event
                /\ l.parent = <<IF repo.table.columns[n].cls = "WellColumn"
                                THEN "Well" ELSE "Image", repo.table.rows[r][n]>>
                /\ \A i \in 1..Len(TransformFrom(tr.columns, repo.table.rows[r])) :
                       \E j \in 1..Len(a.kvs) :
                           a.kvs[j] = TransformFrom(tr.columns, repo.table.rows[r])[i]

\* C13: without ignore_missing_primary_key, parse does not get to its write
\* phase when a row lacks a primary key of a selected namespace; when
\* MapAnnotationPrimaryKeyException has left parse, the option is not set,
\* the run has saved no annotation and no link, and the table is closed.
\* With the option set the exception never leaves parse, and a parse that
\* completes has written every row and namespace that is not an offending
\* one.
C13_MissingPrimaryKey ==
    args.context = "BulkToMapAnnotationContext" =>
        /\ (args.cfg.advanced.ignore_missing_primary_key = FALSE
            /\ pc \in {"write", "done"}) =>
               \A r \in 1..Len(repo.table.rows) : \A tr \in SelectedTransformers :
                   ~Offending(r, tr)
        /\ (pc = "raised" /\ exc = "MapAnnotationPrimaryKeyException") =>
               /\ args.cfg.advanced.ignore_missing_primary_key = FALSE
               /\ table = "closed"
               /\ \A a \in repo.anns : a.event # repo.event
               /\ \A l \in repo.links : l.event # repo.event
        /\ args.cfg.advanced.ignore_missing_primary_key = TRUE =>
               /\ exc # "MapAnnotationPrimaryKeyException"
               /\ (pc = "done" /\ exc = "none") =>
                      \A r \in 1..Len(repo.table.rows) : \A tr \in SelectedTransformers :
                          Annotating(r, tr) => Written(r, tr)

\* with the option set, a parse has completed over a table with an offending
\* row and a row that is not, and has written the latter
C13_Witness ==
    /\ args.context = "BulkToMapAnnotationContext"
    /\ args.cfg.advanced.ignore_missing_primary_key = TRUE
    /\ pc = "done" /\ exc = "none" /\ repo.event = 1
    /\ \E r \in 1..Len(repo.table.rows) : \E tr \in SelectedTransformers : Offending(r, tr)
    /\ \E r \in 1..Len(repo.table.rows) : \E tr \in SelectedTransformers :
          tr.ns = MAPR_NS_GENE /\ Annotating(r, tr) /\ Written(r, tr)
    /\ \A a \in repo.anns : a.ns = MAPR_NS_GENE => \A j \in 1..Len(a.kvs) : a.kvs[j][2] # "y"

\* the submissions a finished or aborted deletion run has made
Submitted == [i \in 1..Len(calls) |-> calls[i].targetObjects]

\* C16: when a deletion run has ended, whether it returned or a submission
\* failed or ran out of attempts, every batch of write_to_omero has been
\* submitted: the link batches of every object type and the file annotation
\* batches
C16_EveryBatchSubmitted ==
    (args # NoneV /\ args.context = "DeleteMapAnnotationContext"
        /\ pc \in {"done", "raised"})
    => Submitted = Submissions(ctx, batch_size)

\* a deletion run, from its construction on
Deleting == args # NoneV /\ args.context = "DeleteMapAnnotationContext"

\* the target of a deletion run and its descendants, as <<type, id>> pairs
Subtree(tgt) ==
    UNION {UNION {{<<ParentTypes[t], p[ParentTypes[t]][i]>> :
                      i \in 1..Len(p[ParentTypes[t]])} :
                  t \in 1..Len(ParentTypes)} :
           p \in {ParentIds(tgt)}}

\* the namespaces selected for the run
SelectedNamespaces ==
    _get_configured_namespaces([column_cfgs |-> args.cfg.column_cfgs,
                                options |-> args.options])

\* the namespace an annotation had before the run
NamespaceBefore(id) == (CHOOSE a \in DeleteRepo.anns : a.id = id).ns

\* the links the run has removed so far
RemovedLinks == DeleteRepo.links \ repo.links

\* C14: a deletion run with options ns = X removes only links of the target
\* and its descendants to annotations of namespace X: the links to
\* annotations of other namespaces and the links of objects outside the
\* subtree all stay
C14_OnlyNamespaceLinksOfSubtree ==
    (Deleting /\ args.options.ns.t = "str")
    => \A S \in {Subtree(target)} : \A l \in RemovedLinks :
           /\ NamespaceBefore(l.child) = args.options.ns.v
           /\ l.parent \in S

\* the configuration files in the repository before the run, and those of
\* them attached to the target or a descendant
ConfigFiles ==
    {a \in DeleteRepo.anns :
        a.cls = "FileAnnotation" /\ a.ns = NSBULKANNOTATIONSCONFIG}

Attachments ==
    UNION {{a \in ConfigFiles :
               \E l \in DeleteRepo.links : l.child = a.id /\ l.parent \in S} :
           S \in {Subtree(target)}}

\* the file is in the repository with every link it had
Unchanged(a) ==
    /\ a \in repo.anns
    /\ \A l \in DeleteRepo.links : l.child = a.id => l \in repo.links

\* attach is set and the configuration namespace is selected
AttachSelected == args.attach /\ NSBULKANNOTATIONSCONFIG \in SelectedNamespaces

\* a run that was no dry run has returned and every submission was answered
\* with the deleted objects
DeletedAll ==
    /\ pc = "done"
    /\ ~args.dry_run
    /\ \A i \in 1..Len(calls) : calls[i].outcome = "response"

\* C15: when a deletion run that is no dry run has deleted all it submitted,
\* the configuration files attached to the target and its descendants are
\* gone if attach is set and the configuration namespace is among the
\* selected ones, explicit or default; if not, every configuration file is
\* unchanged at every step, and so are at every step the configuration
\* files attached to no object of the subtree
C15_AttachmentsDeletedIffAttachSelected ==
    Deleting =>
        /\ (AttachSelected /\ DeletedAll)
               => \A a \in Attachments : \A b \in repo.anns : b.id # a.id
        /\ ~AttachSelected => \A a \in ConfigFiles : Unchanged(a)
        /\ \A a \in ConfigFiles \ Attachments : Unchanged(a)

\* a run under the default namespaces with attach set has deleted the
\* configuration file of its target and left that of a dataset
C15_Witness ==
    /\ Deleting /\ AttachSelected /\ DeletedAll
    /\ args.options.ns.t = "None"
    /\ Attachments # {} /\ ConfigFiles \ Attachments # {}
    /\ \E i \in 1..Len(calls) : calls[i].targetObjects.type = "FileAnnotation"
    /\ \A a \in Attachments : a \notin repo.anns

\* the indices, among the first n data lines, of the lines the row loop
\* accepts: not empty and passing the row filter
Accepted(n) ==
    {i \in 1..n : Len(DataLines[i]) > 0 /\ PassesFilter(DataLines[i])}

\* the data lines the second pass has read
LinesRead == pos - HeaderLines(file)

\* the indices of a set of lines of which exactly n are smaller
NthOf(S, n) == CHOOSE i \in S : Cardinality({j \in S : j < i}) = n - 1

\* the value the first column gets from a data line
FirstValue(line) ==
    populate_row(wrapper, allow_nan, ClearValues(columns), line).columns[1].values[1]

\* the values of the first column over the batches, in order
RECURSIVE FirstColumn(_)
FirstColumn(bs) == IF Len(bs) = 0 THEN <<>> ELSE Head(bs)[1] \o FirstColumn(Tail(bs))

\* the values the first n accepted lines put in the first column, in the
\* order of the lines; a line with the skip signal puts none
RECURSIVE ExpectedFirst(_)
ExpectedFirst(n) ==
    IF n = 0 THEN <<>>
    ELSE ExpectedFirst(n - 1) \o
         (LET line == DataLines[NthOf(Accepted(Len(DataLines)), n)]
          IN  IF TriggersSkip(line) THEN <<>> ELSE <<FirstValue(line)>>)

\* the accepted lines among those read, and those of them already flushed
AcceptedRead == Cardinality(Accepted(LinesRead))

\* C21: while the row loop of populate_from_reader runs without an
\* exception, table.addData has been called once for every batch_size
\* accepted lines and row_count counts the accepted lines since the last
\* call, the buffers holding no more than that; when the loop has ended one
\* more call was made iff accepted lines were left over.  The rows written
\* are the values of the flushed lines, each once and in input order, and
\* no batch holds more than batch_size rows.
C21_FlushEveryBatchSize ==
    /\ (pc = "populate" /\ exc = "none") =>
          /\ row_count = AcceptedRead % batch_size
          /\ CallCount(calls, "addData") = AcceptedRead \div batch_size
          /\ Len(batches) = AcceptedRead \div batch_size
          /\ \A j \in 1..Len(columns) : Len(columns[j].values) <= row_count
          /\ FirstColumn(batches) = ExpectedFirst(AcceptedRead - row_count)
    /\ pc \in {"annotate", "done"} =>
          /\ CallCount(calls, "addData") = (AcceptedRead + batch_size - 1) \div batch_size
          /\ Len(batches) = CallCount(calls, "addData")
          /\ FirstColumn(batches) = ExpectedFirst(AcceptedRead)
    /\ \A b \in 1..Len(batches) : \A j \in 1..Len(batches[b]) :
          Len(batches[b][j]) <= batch_size

\* a parse has finished after two flushes inside the loop
C21_Witness ==
    /\ pc = "done" /\ batch_size = 1 /\ Len(batches) = 2
    /\ Len(FirstColumn(batches)) = 2

\* the columns the header resolver makes of the header of the file
ResolvedHeader ==
    create_columns(target.kind, file[HeaderLines(file)], column_types).v

\* C22: at every table.addData that writes a batch, every column of the
\* schema holds as many values as rows were counted into the batch, and the
\* columns are those of the header resolver, in its order.
C22_ColumnsAlignedAtWrite ==
    [][batches' # batches =>
         LET counted == IF pc' = "populate" THEN row_count + 1 ELSE row_count
             batch == batches'[Len(batches')]
         IN  /\ Len(batch) = Len(ResolvedHeader)
             /\ \A j \in 1..Len(batch) :
                  /\ Len(batch[j]) = counted
                  /\ columns'[j].name = ResolvedHeader[j].name
                  /\ columns'[j].cls = ResolvedHeader[j].cls]_vars

\* C29: every batch table.addData has written holds at least one row
C29_NoEmptyBatch ==
    \A b \in 1..Len(batches) : \E j \in 1..Len(batches[b]) : Len(batches[b][j]) >= 1

\* resolving the cells of a data line with the resolver w raises
ResolveRaisesWith(w, line) ==
    /\ Len(line) <= Len(columns)
    /\ ResolveCells([err |-> "none", skip |-> FALSE, values |-> <<>>, w |-> w],
                    allow_nan, ClearValues(columns),
                    RowPairs(ClearValues(columns), line), 1).err # "none"

\* the same for the resolver as it was constructed
ResolveRaises(line) ==
    ResolveRaisesWith(ValueResolver_init(target.kind, target.id).v, line)

\* the header is resolved and some data line has a cell that fails to resolve
SomeLineRaises ==
    /\ Len(columns) > 0
    /\ \E i \in 1..Len(DataLines) : ResolveRaises(DataLines[i])

\* C28: when a cell of some data line fails to resolve, parse does not get
\* beyond its first pass: no table is created, no row written, no link
\* saved, and the run is in the first pass or has raised; so the second
\* pass, which runs after the table was created, meets no line with a cell
\* that fails to resolve.
C28_ResolveErrorBeforeTable ==
    /\ SomeLineRaises =>
          /\ pc \in {"phase1", "raised"}
          /\ calls = <<>>
          /\ batches = <<>>
          /\ table = "none"
    /\ (pc = "populate" /\ pos < Len(file) /\ Len(file[pos + 1]) > 0
          /\ PassesFilter(file[pos + 1]))
       => ~ResolveRaisesWith(wrapper, file[pos + 1])

\* the key sets of the hierarchy indices of a wrapper; rois_by_id and
\* shapes_by_id of a DatasetWrapper are None until its rois are loaded
IndexKeys(w) ==
    [images_by_id |-> DOMAIN w.images_by_id,
     images_by_name |-> DOMAIN w.images_by_name,
     datasets_by_id |-> DOMAIN w.datasets_by_id,
     datasets_by_name |-> DOMAIN w.datasets_by_name,
     wells_by_id |-> DOMAIN w.wells_by_id,
     wells_by_location |-> DOMAIN w.wells_by_location,
     rois_by_id |-> DOMAIN w.rois_by_id,
     shapes_by_id |-> DOMAIN w.shapes_by_id,
     rois_loaded |-> w.rois_loaded]

\* C23: once the ValueResolver is constructed, no step of a parse changes
\* the key set of a hierarchy index.
C23_IndicesReadOnly ==
    [][(wrapper # NoneV /\ wrapper' # NoneV)
       => IndexKeys(wrapper') = IndexKeys(wrapper)]_vars

\* two distinct rois of an image have the same name
SharedRoiName(image) ==
    \E i, j \in 1..Len(image.shapes) :
        /\ image.shapes[i].roi.id # image.shapes[j].roi.id
        /\ image.shapes[i].roi.name = image.shapes[j].roi.name

\* C30: the wrapper of an image is flagged ambiguous iff two distinct rois
\* of the image share a name; for an image that is not, the first pass over
\* a file with a 'Roi Name' column does not fail with 'Cannot resolve ROI
\* names'.
C30_AmbiguousIffSharedName ==
    (wrapper # NoneV /\ target.kind = "Image") =>
        /\ wrapper.ambiguous_naming <=> SharedRoiName(RepoFind(target.kind, target.id)[1])
        /\ ~SharedRoiName(RepoFind(target.kind, target.id)[1])
             => ~(pc = "raised" /\ exc = "MetadataError" /\ calls = <<>>)

\* a run of write_to_omero: the context holds the annotations to write
Writing ==
    /\ args # NoneV
    /\ args.context = "BulkToMapAnnotationContext"
    /\ "saved" \in DOMAIN ctx

\* the saved annotations that hold the pairs of the c-th annotation of the
\* manager, and the links to a saved annotation
AnnsOf(c) == {a \in repo.anns : a.kvs = ctx.cmas[c].kvpairs /\ a.ns = ctx.cmas[c].ns}

LinksTo(a) == {l \in repo.links : l.child = a.id}

\* C24: in write_to_omero no annotation of the manager is ever saved twice;
\* when the method has returned, every annotation with a parent is saved
\* once and has one link per parent; an annotation with batch_size or more
\* links was saved on its own, right before its links.
C24_OneSavePerAnnotation ==
    Writing =>
        \A c \in 1..Len(ctx.cmas) :
            /\ Cardinality(AnnsOf(c)) <= 1
            /\ \A a \in AnnsOf(c) :
                 /\ \A l1, l2 \in LinksTo(a) : l1.parent = l2.parent => l1 = l2
                 /\ {l.parent : l \in LinksTo(a)} \subseteq ctx.cmas[c].parents
                 /\ (ctx.cmas[c].id = 0 /\ Cardinality(ctx.cmas[c].parents) >= batch_size)
                      => {l.id : l \in LinksTo(a)} =
                            (a.id + 1)..(a.id + Cardinality(ctx.cmas[c].parents))
            /\ (pc = "done" /\ ctx.cmas[c].parents # {}) =>
                 \E a \in AnnsOf(c) : {l.parent : l \in LinksTo(a)} = ctx.cmas[c].parents

\* a finished run over annotations of one, two and three links that saved
\* some on their own and some together
C24_Witness ==
    /\ Writing
    /\ pc = "done"
    /\ batch_size = 2
    /\ Len(ctx.cmas) >= 6
    /\ \E c \in 1..Len(ctx.cmas) : Cardinality(ctx.cmas[c].parents) = 3
    /\ \E n \in 1..Len(ctx.saved) : ctx.saved[n] = 2 /\ n > 4

\* the number of links of a sequence of annotations
RECURSIVE LinkTotal(_)
LinkTotal(cmas) ==
    IF Len(cmas) = 0 THEN 0 ELSE Cardinality(Head(cmas).parents) + LinkTotal(Tail(cmas))

RECURSIVE SumOf(_)
SumOf(s) == IF Len(s) = 0 THEN 0 ELSE Head(s) + SumOf(Tail(s))

\* C25: no array handed to the update service by write_to_omero holds more
\* than batch_size links; the running total is the number of links saved so
\* far, and when the method has returned it is the number of links of all
\* the annotations.
C25_BatchesWithinSize ==
    Writing =>
        /\ \A n \in 1..Len(ctx.saved) : ctx.saved[n] <= batch_size
        /\ ctx.i = SumOf(ctx.saved)
        /\ ctx.i = Cardinality({l \in repo.links : l.event = repo.event})
        /\ pc = "done" => ctx.i = LinkTotal(ctx.cmas)

\* a finished run that wrote the accumulated links once inside the loop
\* (more than 10 * batch_size of them) and the rest after it
C25_Witness ==
    /\ Writing
    /\ pc = "done"
    /\ batch_size = MaxBatch
    /\ Len(ctx.cmas) = MaxAnns
    /\ Len(ctx.links) = 1
    /\ ctx.i = MaxAnns

\* a run of BulkToMapAnnotationContext with its manager
Populating ==
    /\ args # NoneV
    /\ args.context = "BulkToMapAnnotationContext"
    /\ "mapannotations" \in DOMAIN ctx

\* the namespace of a transformer, and whether the run selects it
NsOf(tr) == IF tr.name = "" THEN NSBULKANNOTATIONS ELSE tr.name

Selected(ns) ==
    \/ args.options.ns.t = "None"
    \/ args.options.ns.t = "str" /\ args.options.ns.v = ns
    \/ args.options.ns.t = "list"
         /\ \E n \in 1..Len(args.options.ns.v) : args.options.ns.v[n] = ns

\* the rows populate has gone through that hold a positive id
PositiveRows == {j \in 1..pos : \E n \in 1..Len(BulkColumns) :
                    /\ BulkColumns[n].cls \in {"WellColumn", "ImageColumn"}
                    /\ repo.table.rows[j][n] > 0}

\* the c-th annotation comes from a row with a positive id whose pairs in
\* the annotation's namespace are not empty
FromRow(cma) ==
    \E j \in PositiveRows :
    \E g \in 1..Len(args.cfg.column_cfgs) :
        LET tr == get_transformers([n \in 1..Len(BulkColumns) |-> BulkColumns[n].name],
                                   args.cfg.column_cfgs)[g]
            kvs == transform(tr, repo.table.rows[j])
        IN  /\ NsOf(tr) = cma.ns
            /\ Selected(cma.ns)
            /\ Len(kvs) >= 1
            /\ \A n \in 1..Len(kvs) : \E q \in 1..Len(cma.kvpairs) : cma.kvpairs[q] = kvs[n]
            /\ <<"Well", repo.table.rows[j][1]>> \in cma.parents

\* C26: every annotation populate adds comes from a row with a positive id
\* and a transformer with at least one pair for the row; no annotation has
\* zero pairs or a parent of id <= 0, in the manager or saved; rows without
\* a positive id add no annotation and no link.
C26_AnnotationNeedsIdAndPairs ==
    Populating =>
        /\ \A c \in 1..Len(get_map_annotations(ctx.mapannotations)) :
             LET cma == get_map_annotations(ctx.mapannotations)[c]
             IN  /\ Len(cma.kvpairs) >= 1
                 /\ \A p \in cma.parents : p[2] > 0
                 /\ (cma.id = 0 \/ cma.parents # {}) => FromRow(cma)
        /\ \A a \in repo.anns : Len(a.kvs) >= 1
        /\ \A l \in repo.links : l.parent[2] > 0
        /\ PositiveRows = {} =>
             /\ \A c \in 1..Len(get_map_annotations(ctx.mapannotations)) :
                  get_map_annotations(ctx.mapannotations)[c].id # 0
             /\ \A l \in repo.links : l.event # repo.event

\* a finished run over a row without pairs in the default namespace and a
\* row with the id -1: one annotation, of the gene namespace, is saved
C26_Witness ==
    /\ Populating
    /\ pc = "done"
    /\ repo.event = 1
    /\ repo.table.rows = <<<<22, "", "y">>, <<-1, "hh", "x">>>>
    /\ args.options.ns.t = "None"
    /\ Cardinality({a \in repo.anns : a.event = 1}) = 1
    /\ Cardinality({l \in repo.links : l.event = 1}) >= 1

\* parent and child in the hierarchies of the repository, as <<type, id>>
\* pairs: screen, plate, {acquisition, well}, well sample, image and
\* project, dataset, image
Edges ==
    UNION {{<<<<"Screen", RepoScreen.id>>, <<"Plate", RepoScreen.plates[p].id>>>>}
           \cup {<<<<"Plate", RepoScreen.plates[p].id>>,
                   <<"Well", RepoScreen.plates[p].wells[w].id>>>> :
                    w \in 1..Len(RepoScreen.plates[p].wells)} :
           p \in 1..Len(RepoScreen.plates)}
    \cup {<<<<"Plate", RepoAcquisitions[a].plate>>,
            <<"PlateAcquisition", RepoAcquisitions[a].id>>>> :
             a \in 1..Len(RepoAcquisitions)}
    \cup {<<<<"Well", WellSamples[s].well>>, <<"WellSample", WellSamples[s].id>>>> :
             s \in 1..Len(WellSamples)}
    \cup {<<<<"PlateAcquisition", WellSamples[s].plateAcquisition>>,
            <<"WellSample", WellSamples[s].id>>>> :
             s \in {s \in 1..Len(WellSamples) : WellSamples[s].plateAcquisition # 0}}
    \cup {<<<<"WellSample", WellSamples[s].id>>, <<"Image", WellSamples[s].image>>>> :
             s \in 1..Len(WellSamples)}
    \cup UNION {{<<<<"Project", RepoProject.id>>,
                   <<"Dataset", RepoProject.datasets[d].id>>>>}
                \cup {<<<<"Dataset", RepoProject.datasets[d].id>>,
                        <<"Image", RepoProject.datasets[d].images[i].id>>>> :
                         i \in 1..Len(RepoProject.datasets[d].images)} :
                d \in 1..Len(RepoProject.datasets)}

RECURSIVE Below(_, _)
Below(S, n) ==
    IF n = 0 THEN S
    ELSE Below(S \cup {e[2] : e \in {e \in Edges : e[1] \in S}}, n - 1)

\* the links to map annotations of the selected namespaces from the target
\* and the objects below it, well samples left out
LinksToDelete ==
    {l \in LevelsRepo.links :
        /\ l.parent \in Below({<<target.kind, target.id>>}, 5)
        /\ l.parent[1] # "WellSample"
        /\ \E a \in LevelsRepo.anns :
              a.id = l.child /\ a.cls = "MapAnnotation" /\ a.ns \in SelectedNamespaces}

\* the submissions of links among the calls of the run
LinkCalls == {n \in 1..Len(calls) : calls[n].targetObjects.type = "AnnotationLink"}

\* C27: a deletion run collects the links to map annotations of the
\* selected namespaces from the target and from every object below it,
\* whatever the kind of the target; it submits no link id twice, no batch
\* of more than batch_size ids and no link of a well sample; a run that
\* returns has submitted every link it collected.
C27_EveryLevelOnce ==
    (Deleting /\ pc \in {"write", "done", "raised"}) =>
        /\ UNION {ctx.mapannids[n].ids : n \in 1..Len(ctx.mapannids)}
             = {l.id : l \in LinksToDelete}
        /\ \A n \in 1..Len(ctx.mapannids) : \A id \in ctx.mapannids[n].ids :
             \E l \in LinksToDelete : l.id = id /\ l.parent[1] = ctx.mapannids[n].objtype
        /\ \A n \in 1..Len(calls) :
             /\ Len(calls[n].targetObjects.ids) <= batch_size
             /\ calls[n].targetObjects.objtype # "WellSample"
        /\ \A n \in LinkCalls :
             /\ \A i, j \in 1..Len(calls[n].targetObjects.ids) :
                  calls[n].targetObjects.ids[i] = calls[n].targetObjects.ids[j] => i = j
             /\ \A i \in 1..Len(calls[n].targetObjects.ids) :
                  /\ \E l \in LinksToDelete : l.id = calls[n].targetObjects.ids[i]
                  /\ \A k \in LinkCalls \ {n} :
                       \A j \in 1..Len(calls[k].targetObjects.ids) :
                           calls[k].targetObjects.ids[j] # calls[n].targetObjects.ids[i]
        /\ pc = "done" =>
             \A l \in LinksToDelete : \E n \in LinkCalls :
                 \E i \in 1..Len(calls[n].targetObjects.ids) :
                     calls[n].targetObjects.ids[i] = l.id

\* a run on the screen that returned after submitting links of the screen,
\* a plate, an acquisition, wells and images, the link of the well sample
\* still in the repository
C27_Witness ==
    /\ Deleting
    /\ pc = "done"
    /\ target = Tgt("Screen", 1)
    /\ args.options.ns.t = "None"
    /\ batch_size = 2
    /\ {calls[n].targetObjects.objtype : n \in LinkCalls}
         = {"Screen", "Plate", "PlateAcquisition", "Well", "Image"}
    /\ \E l \in repo.links : l.parent[1] = "WellSample"

====
